---- MODULE Spec2Model ----
(***************************************************************************)
(* Model of the bangs search-shortcut service: the bang resolver           *)
(* (src/lib/bangs.ts) and the prediction engine (src/lib/search-engine.ts).*)
(*                                                                         *)
(* The state holds JavaScript strings as strings; the operators work on    *)
(* the sequence of their characters (Chars), one-character strings each.   *)
(* A score (an IEEE double in the code) is modelled as the exact rational  *)
(* it denotes, held as an integer number of 1/ScoreScale units.            *)
(***************************************************************************)
EXTENDS Integers, Sequences, FiniteSets, TLC

VARIABLES
  query,        \* getBangRedirectUrl: the argument
  url,          \* getBangRedirectUrl: the returned URL, NoUrl before the call
  corpus,       \* search-engine.ts _corpus, Null before initSearchEngine
  trie,         \* search-engine.ts _trie, Null before initSearchEngine
  ngramIndex,   \* search-engine.ts _ngramIndex, Null before initSearchEngine
  pquery,       \* predict: the query argument
  plimit,       \* predict: the limit argument
  results,      \* predict: the returned list, NoResult before the call
  strA,         \* damerauLevenshtein: first argument
  strB,         \* damerauLevenshtein: second argument
  strC,         \* a third string, for laws over three strings
  dist,         \* damerauLevenshtein(strA, strB), NoDist before the call
  call,         \* the arguments of one library call (fuzzyMatch, ngramSearch,
                \* Trie.insert / Trie.search, matchBangs), Null when none
  ret,          \* what that call returned, Null before it returns
  suggestCache, \* page.tsx suggestCache: the entries of the Map, oldest first
  engineReady,  \* page.tsx engineReady
  now,          \* Date.now(), in milliseconds
  reqs,         \* the requests GET has been called for, in order of arrival
  localStorage, \* the browser: the list stored under bangs:history
  href,         \* the browser: window.location.href once set, Null before
  barQuery,     \* SearchBar: the state query, the text of the input
  debouncedQuery, \* SearchBar: useDebounce(query, 280)
  barSuggestions, \* SearchBar: the state suggestions
  activeIndex,  \* SearchBar: the state activeIndex
  open,         \* SearchBar: the state open
  isLoading,    \* SearchBar: the state isLoading
  history,      \* SearchBar: the state history
  abortRef      \* SearchBar: the invocation of buildSuggestions that awaits
                \* its fetch under abortRef.current, Null when there is none

callVars == <<call, ret>>
serverVars == <<suggestCache, engineReady, now, reqs>>
barVars == <<localStorage, href, barQuery, debouncedQuery, barSuggestions,
             activeIndex, open, isLoading, history, abortRef>>

vars == <<query, url, corpus, trie, ngramIndex, pquery, plimit, results,
          strA, strB, strC, dist, callVars, serverVars, barVars>>

\* null / "not yet returned" markers. A nullable list is a list of at most one
\* element: Null, or Some(value).
Null == <<>>
Some(v) == <<v>>
NoUrl == ""
NoDist == -1

(***************************************************************************)
(* Strings                                                                 *)
(***************************************************************************)

\* The characters of a string literal, in order.
Chars(s) == [i \in 1..Len(s) |-> SubSeq(s, i, i)]

\* The string made of the characters cs.
RECURSIVE Str(_)
Str(cs) == IF cs = <<>> THEN "" ELSE Head(cs) \o Str(Tail(cs))

Min(S) == CHOOSE x \in S : \A y \in S : x <= y
\* Math.min of two and of three numbers.
Min2(x, y) == IF x <= y THEN x ELSE y
Min3(x, y, z) == Min2(Min2(x, y), z)
Max(S) == CHOOSE x \in S : \A y \in S : x >= y

\* All sequences over S of length at most n.
SeqsUpTo(S, n) == UNION {[1..k -> S] : k \in 0..n}

RECURSIVE Flatten(_)
Flatten(ss) == IF ss = <<>> THEN <<>> ELSE Head(ss) \o Flatten(Tail(ss))

UpperCase == Chars("ABCDEFGHIJKLMNOPQRSTUVWXYZ")
LowerCase == Chars("abcdefghijklmnopqrstuvwxyz")

\* String.prototype.toLowerCase, one character.
LowerChar(ch) ==
  IF \E i \in 1..26 : UpperCase[i] = ch
    THEN LowerCase[CHOOSE i \in 1..26 : UpperCase[i] = ch]
    ELSE ch

toLowerCase(s) == [i \in 1..Len(s) |-> LowerChar(s[i])]

\* The characters the regular-expression class \s and String.prototype.trim
\* treat as white space (those of them the model's inputs use).
WhiteSpace == {" ", "\t", "\n"}
IsSpace(ch) == ch \in WhiteSpace

trim(s) ==
  LET solid == {i \in 1..Len(s) : ~IsSpace(s[i])}
  IN  IF solid = {} THEN <<>> ELSE SubSeq(s, Min(solid), Max(solid))

startsWith(s, p) == Len(p) <= Len(s) /\ SubSeq(s, 1, Len(p)) = p

\* The least index at or after i where sub occurs in s, 0 when there is none.
indexOf(s, sub, i) ==
  LET hits == {k \in i..(Len(s) - Len(sub) + 1) : SubSeq(s, k, k + Len(sub) - 1) = sub}
  IN  IF hits = {} THEN 0 ELSE Min(hits)

\* String.prototype.replace(pattern, replacement) with a string pattern: the
\* first occurrence only. The replacement strings of this program hold no "$"
\* (encodeURIComponent escapes it), so no replacement pattern is in play.
replaceFirst(s, sub, by) ==
  LET k == indexOf(s, sub, 1)
  IN  IF k = 0 THEN s
      ELSE SubSeq(s, 1, k - 1) \o by \o SubSeq(s, k + Len(sub), Len(s))

\* String.prototype.replace with a global literal pattern: every occurrence,
\* left to right, not rescanning what was inserted.
RECURSIVE replaceAll(_, _, _)
replaceAll(s, sub, by) ==
  LET k == indexOf(s, sub, 1)
  IN  IF k = 0 THEN s
      ELSE SubSeq(s, 1, k - 1) \o by
           \o replaceAll(SubSeq(s, k + Len(sub), Len(s)), sub, by)

(***************************************************************************)
(* Bang registry (src/lib/bangs.ts)                                        *)
(***************************************************************************)

Bang(t, u, d, n) ==
  [trigger |-> Chars(t), url |-> Chars(u), domain |-> Chars(d), name |-> Chars(n)]

BANGS ==
  << Bang("g", "https://www.google.com/search?q={{{s}}}",
          "www.google.com", "Google"),
     Bang("b", "https://www.bing.com/search?q={{{s}}}",
          "www.bing.com", "Bing"),
     Bang("d", "https://duckduckgo.com/?q={{{s}}}",
          "duckduckgo.com", "DuckDuckGo"),
     Bang("y", "https://www.youtube.com/results?search_query={{{s}}}",
          "www.youtube.com", "YouTube"),
     Bang("x", "https://x.com/search?q={{{s}}}",
          "x.com", "X"),
     Bang("r", "https://www.reddit.com/search/?q={{{s}}}",
          "reddit.com", "Reddit"),
     Bang("w", "https://en.wikipedia.org/w/index.php?search={{{s}}}",
          "wikipedia.org", "Wikipedia"),
     Bang("mdn", "https://developer.mozilla.org/en-US/search?q={{{s}}}",
          "developer.mozilla.org", "MDN Web Docs"),
     Bang("so", "https://stackoverflow.com/search?q={{{s}}}",
          "stackoverflow.com", "Stack Overflow"),
     Bang("gh", "https://github.com/search?q={{{s}}}",
          "github.com", "GitHub"),
     Bang("ghr", "https://github.com/{{{s}}}",
          "github.com", "GitHub Repository"),
     Bang("npm", "https://www.npmjs.com/search?q={{{s}}}",
          "www.npmjs.com", "npm"),
     Bang("m", "https://www.google.com/maps/search/?api=1&query={{{s}}}",
          "maps.google.com", "Maps"),
     Bang("t", "https://translate.google.com/?q={{{s}}}&op=translate",
          "translate.google.com", "Translate"),
     Bang("c", "https://chatgpt.com/?q={{{s}}}",
          "chatgpt.com", "ChatGPT"),
     Bang("a", "https://www.amazon.com/s?k={{{s}}}",
          "www.amazon.com", "Amazon"),
     Bang("i", "https://www.google.com/search?tbm=isch&q={{{s}}}&tbs=imgo:1",
          "google.com", "Google Images") >>

\* BANGS.find(pred): the first entry whose trigger is t, as a list of at most one.
findBang(t) ==
  LET hits == {i \in 1..Len(BANGS) : BANGS[i].trigger = t}
  IN  IF hits = {} THEN <<>> ELSE <<BANGS[Min(hits)]>>

DEFAULT_BANG == findBang(Chars("g"))[1]

HomeUrl == Chars("https://www.google.com")
Placeholder == Chars("{{{s}}}")

(***************************************************************************)
(* encodeURIComponent (ECMAScript): the unreserved characters stay, every  *)
(* other character becomes %XX for each byte of its UTF-8 encoding. The    *)
(* model's inputs are ASCII, one byte each.                                *)
(***************************************************************************)

Unreserved ==
  {UpperCase[i] : i \in 1..26} \cup {LowerCase[i] : i \in 1..26}
  \cup {"0", "1", "2", "3", "4", "5", "6", "7", "8", "9"}
  \cup {"-", "_", ".", "!", "~", "*", "'", "(", ")"}

\* ASCII codes of the escaped characters the model's inputs use.
AsciiCode ==
  [ch \in {"\t", "\n", " ", "#", "$", "%", "&", "+", "/", ":", "=", "?", "{", "}"} |->
     CASE ch = "\t" -> 9  [] ch = "\n" -> 10 [] ch = " " -> 32 [] ch = "#" -> 35
       [] ch = "$" -> 36  [] ch = "%" -> 37  [] ch = "&" -> 38 [] ch = "+" -> 43
       [] ch = "/" -> 47  [] ch = ":" -> 58  [] ch = "=" -> 61 [] ch = "?" -> 63
       [] ch = "{" -> 123 [] ch = "}" -> 125]

HexDigits == Chars("0123456789ABCDEF")

encodeChar(ch) ==
  IF ch \in Unreserved THEN <<ch>>
  ELSE <<"%", HexDigits[(AsciiCode[ch] \div 16) + 1], HexDigits[(AsciiCode[ch] % 16) + 1]>>

encodeURIComponent(s) == Flatten([i \in 1..Len(s) |-> encodeChar(s[i])])

\* encodeURIComponent(cleanQuery).replace(/%2F/g, '/')
encodeQuery(cleanQuery) ==
  replaceAll(encodeURIComponent(cleanQuery), Chars("%2F"), <<"/">>)

(***************************************************************************)
(* getBangRedirectUrl                                                      *)
(***************************************************************************)

\* query.match(/!(\S+)/i): the leftmost "!" that a non-space character
\* follows, and the longest run of non-space characters after it.
bangMatch(q) ==
  LET starts == {i \in 1..(Len(q) - 1) : q[i] = "!" /\ ~IsSpace(q[i + 1])}
  IN  IF starts = {} THEN [found |-> FALSE, index |-> 0, last |-> 0, capture |-> <<>>]
      ELSE LET i == Min(starts)
               gaps == {k \in (i + 1)..Len(q) : IsSpace(q[k])}
               e == IF gaps = {} THEN Len(q) ELSE Min(gaps) - 1
           IN  [found |-> TRUE, index |-> i, last |-> e, capture |-> SubSeq(q, i + 1, e)]

\* match?.[1]?.toLowerCase(); undefined is modelled as the empty string, which
\* is as falsy as undefined and is no trigger either.
bangCandidateOf(q) ==
  LET match == bangMatch(q)
  IN  IF match.found THEN toLowerCase(match.capture) ELSE <<>>

\* BANGS.find((b) => b.trigger === bangCandidate) || DEFAULT_BANG
selectBang(bangCandidate) ==
  LET found == findBang(bangCandidate)
  IN  IF found = <<>> THEN DEFAULT_BANG ELSE found[1]

\* query.replace(/!\S+\s*/i, ''): the same leftmost match, extended over the
\* white space that follows it, removed once.
removeBang(q) ==
  LET match == bangMatch(q)
  IN  IF ~match.found THEN q
      ELSE LET solid == {k \in (match.last + 1)..Len(q) : ~IsSpace(q[k])}
               e == IF solid = {} THEN Len(q) ELSE Min(solid) - 1
           IN  SubSeq(q, 1, match.index - 1) \o SubSeq(q, e + 1, Len(q))

\* Mutant of bareSite: the home URL whatever the bang.
bareSiteHome(bang) == HomeUrl

\* `https://${selectedBang.domain}`
bareSite(bang) == Chars("https://") \o bang.domain

redirectChars(q) ==
  IF trim(q) = <<>> THEN HomeUrl
  ELSE LET bangCandidate == bangCandidateOf(q)
           selectedBang == selectBang(bangCandidate)
           cleanQuery == trim(removeBang(q))
       IN  IF cleanQuery = <<>> /\ bangCandidate # <<>> THEN bareSite(selectedBang)
           ELSE IF cleanQuery = <<>> THEN HomeUrl
           ELSE replaceFirst(selectedBang.url, Placeholder, encodeQuery(cleanQuery))

getBangRedirectUrl(q) == Str(redirectChars(Chars(q)))

(***************************************************************************)
(* The resolver as a state machine: a query arrives, the resolver answers. *)
(***************************************************************************)

\* Bounds of the resolver's inputs.
MaxQueryLen == 5
MaxEncLen == 5

\* Characters of the queries that exercise the bang parsing: the bang mark,
\* white space, triggers in both cases (y, g, gh) and a letter that is none.
BangChars == {"!", " ", "y", "Y", "g", "h"}
\* Characters of the queries that exercise the encoding: "/", "%", the text
\* "%2F" itself, reserved characters, and a bang.
EncChars == {"!", "y", " ", "/", "%", "2", "F"}

StringsUpTo(S, n) == {Str(cs) : cs \in SeqsUpTo(S, n)}

EngineIdle ==
  /\ corpus = Null /\ trie = Null /\ ngramIndex = Null
  /\ pquery = "" /\ plimit = 0 /\ results = Null
DistanceIdle == strA = "" /\ strB = "" /\ strC = "" /\ dist = NoDist
ResolverIdle == query = "" /\ url = NoUrl
CallIdle == call = Null /\ ret = Null
ServerIdle == suggestCache = <<>> /\ engineReady = FALSE /\ now = 0 /\ reqs = <<>>
BarIdle ==
  /\ localStorage = <<>> /\ href = Null
  /\ barQuery = "" /\ debouncedQuery = "" /\ barSuggestions = <<>>
  /\ activeIndex = -1 /\ open = FALSE /\ isLoading = FALSE
  /\ history = <<>> /\ abortRef = Null

InitBang ==
  /\ query \in StringsUpTo(BangChars, MaxQueryLen)
  /\ url = NoUrl
  /\ EngineIdle /\ DistanceIdle /\ CallIdle /\ ServerIdle /\ BarIdle

InitEncode ==
  /\ query \in StringsUpTo(EncChars, MaxEncLen)
  /\ url = NoUrl
  /\ EngineIdle /\ DistanceIdle /\ CallIdle /\ ServerIdle /\ BarIdle

\* The redirect page calls getBangRedirectUrl(q) once.
Resolve ==
  /\ url = NoUrl
  /\ url' = getBangRedirectUrl(query)
  /\ UNCHANGED <<query, corpus, trie, ngramIndex, pquery, plimit, results,
                 strA, strB, strC, dist, callVars, serverVars,
                 barVars>>

NextBang == Resolve
SpecBang == InitBang /\ [][NextBang]_vars
SpecEncode == InitEncode /\ [][NextBang]_vars

(***************************************************************************)
(* damerauLevenshtein (src/lib/search-engine.ts): three rolling rows.      *)
(* A row is the sequence of its n + 1 cells; cell j of the code is element *)
(* j + 1 here, character i - 1 of the code is character i here.            *)
(***************************************************************************)

\* new Array(n + 1).fill(0)
zeroRow(n) == [k \in 1..(n + 1) |-> 0]
\* Array.from({ length: n + 1 }, (_, i) => i)
countRow(n) == [k \in 1..(n + 1) |-> k - 1]

\* Mutant of cell: the insertion branch forgotten.
cellNoInsertion(al, bl, i, j, prevPrev, prev, curr) ==
  LET cost == IF al[i] = bl[j] THEN 0 ELSE 1
      plain == Min2(prev[j + 1] + 1, prev[j] + cost)
  IN  IF i > 1 /\ j > 1 /\ al[i] = bl[j - 1] /\ al[i - 1] = bl[j]
        THEN Min2(plain, prevPrev[j - 1] + cost)
        ELSE plain

\* The value stored in curr[j] in row i.
cell(al, bl, i, j, prevPrev, prev, curr) ==
  LET cost == IF al[i] = bl[j] THEN 0 ELSE 1
      plain == Min3(prev[j + 1] + 1,    \* deletion
                    curr[j] + 1,        \* insertion
                    prev[j] + cost)     \* substitution
  IN  IF i > 1 /\ j > 1 /\ al[i] = bl[j - 1] /\ al[i - 1] = bl[j]
        THEN Min2(plain, prevPrev[j - 1] + cost)
        ELSE plain

\* The inner loop: cells j..n of row i, left to right, written into curr.
RECURSIVE fillRow(_, _, _, _, _, _, _)
fillRow(al, bl, i, j, prevPrev, prev, curr) ==
  IF j > Len(bl) THEN curr
  ELSE fillRow(al, bl, i, j + 1, prevPrev, prev,
               [curr EXCEPT ![j + 1] = cell(al, bl, i, j, prevPrev, prev, curr)])

\* Mutant of rotateRows: the two copies in the other order, so that prevPrev
\* is a copy of the row just filled.
rotateRowsSwapped(rows) ==
  [prevPrev |-> rows.curr, prev |-> rows.curr, curr |-> rows.curr]

\* prevPrev = prev.slice(); prev = curr.slice(); curr stays the same array.
rotateRows(rows) ==
  [prevPrev |-> rows.prev, prev |-> rows.curr, curr |-> rows.curr]

\* The outer loop from row i on; the rows as they stand when it ends.
RECURSIVE rowLoop(_, _, _, _)
rowLoop(al, bl, i, rows) ==
  IF i > Len(al) THEN rows
  ELSE LET first == [rows.curr EXCEPT ![1] = i]
           filled == fillRow(al, bl, i, 1, rows.prevPrev, rows.prev, first)
       IN  rowLoop(al, bl, i + 1, rotateRows([rows EXCEPT !.curr = filled]))

distanceChars(a, b) ==
  LET al == toLowerCase(a)
      bl == toLowerCase(b)
      m == Len(al)
      n == Len(bl)
  IN  IF m = 0 THEN n
      ELSE IF n = 0 THEN m
      ELSE rowLoop(al, bl, 1,
                   [prevPrev |-> zeroRow(n), prev |-> countRow(n), curr |-> zeroRow(n)]
                  ).curr[n + 1]

damerauLevenshtein(a, b) == distanceChars(Chars(a), Chars(b))

(***************************************************************************)
(* The edit distance as a state machine: strings arrive, it is measured.   *)
(***************************************************************************)

\* Bounds of the strings measured.
MaxDistLen == 3
MaxTriLen == 2

\* Letters in both cases, so that the lowering matters.
DistChars == {"a", "b", "A"}
TriChars == {"a", "b", "c"}

InitDistance ==
  /\ strA \in StringsUpTo(DistChars, MaxDistLen)
  /\ strB \in StringsUpTo(DistChars, MaxDistLen)
  /\ strC = ""
  /\ dist = NoDist
  /\ ResolverIdle /\ EngineIdle /\ CallIdle /\ ServerIdle /\ BarIdle

\* The first place of ch in s, past the end when it is not there.
FirstAt(s, ch) == Min({i \in 1..Len(s) : s[i] = ch} \cup {Len(s) + 1})

\* The code compares characters for equality only, so a distance is the same
\* after renaming the letters: one triple per renaming is drawn, the one whose
\* letters first appear in the order a, b, c.
LettersInOrder(x, y, z) ==
  LET s == Chars(x) \o Chars(y) \o Chars(z)
  IN  FirstAt(s, "a") <= FirstAt(s, "b") /\ FirstAt(s, "b") <= FirstAt(s, "c")

\* Three strings, strB one character longer than the others.
InitTriangle ==
  /\ strA \in StringsUpTo(TriChars, MaxTriLen)
  /\ strB \in StringsUpTo(TriChars, MaxTriLen + 1)
  /\ strC \in StringsUpTo(TriChars, MaxTriLen)
  /\ LettersInOrder(strA, strB, strC)
  /\ dist = NoDist
  /\ ResolverIdle /\ EngineIdle /\ CallIdle /\ ServerIdle /\ BarIdle

Measure ==
  /\ dist = NoDist
  /\ dist' = damerauLevenshtein(strA, strB)
  /\ UNCHANGED <<query, url, corpus, trie, ngramIndex, pquery, plimit, results,
                 strA, strB, strC, callVars, serverVars,
                 barVars>>

NextDistance == Measure
SpecDistance == InitDistance /\ [][NextDistance]_vars
SpecTriangle == InitTriangle /\ [][NextDistance]_vars

(***************************************************************************)
(* The distances of the literature, by their full-matrix recurrences.      *)
(***************************************************************************)

\* Row i of the full table of the recurrence, built cell by cell from column
\* j on: table[r + 1][c + 1] is the distance of the first r characters of x
\* and the first c of y, for the rows r < i, and row holds the cells of row i
\* to the left of column j. A transposition costs 1 when transpose holds and
\* is not allowed otherwise.
RECURSIVE RefRow(_, _, _, _, _, _, _)
RefRow(x, y, transpose, i, j, table, row) ==
  IF j > Len(y) THEN row
  ELSE LET at(r, c) == table[r + 1][c + 1]
           edit == Min3(at(i - 1, j) + 1, row[j] + 1,
                        at(i - 1, j - 1) + (IF x[i] = y[j] THEN 0 ELSE 1))
           v == IF i = 0 THEN j
                ELSE IF j = 0 THEN i
                ELSE IF /\ transpose /\ i > 1 /\ j > 1
                        /\ x[i] = y[j - 1] /\ x[i - 1] = y[j]
                  THEN Min2(edit, at(i - 2, j - 2) + 1)
                  ELSE edit
       IN  RefRow(x, y, transpose, i, j + 1, table, Append(row, v))

\* The table from row i on.
RECURSIVE RefTable(_, _, _, _, _)
RefTable(x, y, transpose, i, table) ==
  IF i > Len(x) THEN table
  ELSE RefTable(x, y, transpose, i + 1,
                Append(table, RefRow(x, y, transpose, i, 0, table, <<>>)))

RefDistance(x, y, transpose) ==
  RefTable(x, y, transpose, 0, <<>>)[Len(x) + 1][Len(y) + 1]

\* Optimal String Alignment: insertion, deletion, substitution and adjacent
\* transposition cost 1 each, and no substring is edited twice.
RefOSA(x, y) == RefDistance(x, y, TRUE)

\* Levenshtein: the same without the transposition.
RefLevenshtein(x, y) == RefDistance(x, y, FALSE)

\* y is x with two different adjacent characters exchanged.
AdjacentSwap(x, y) ==
  /\ Len(x) = Len(y)
  /\ \E k \in 1..(Len(x) - 1) :
       /\ x[k] # x[k + 1] /\ y[k] = x[k + 1] /\ y[k + 1] = x[k]
       /\ \A i \in (1..Len(x)) \ {k, k + 1} : y[i] = x[i]

Measured == dist # NoDist

\* C9: damerauLevenshtein(a, b) is the Optimal String Alignment distance of
\* the lowercased strings, as the full-matrix recurrence computes it; hence
\* d(a, a) = 0, d(a, b) = d(b, a), d(a, "") = |a|, and one adjacent
\* transposition costs 1.
C9_IsOSA ==
  Measured =>
    LET x == toLowerCase(Chars(strA))
        y == toLowerCase(Chars(strB))
    IN  /\ dist = RefOSA(x, y)
        /\ x = y => dist = 0
        /\ dist = damerauLevenshtein(strB, strA)
        /\ y = <<>> => dist = Len(x)
        /\ AdjacentSwap(x, y) => dist = 1

\* C9 witness: two measured strings of three characters, in different cases,
\* that differ by one adjacent transposition after lowering; the third row of
\* the table reads the first through prevPrev.
C9_Witness ==
  /\ Measured
  /\ Len(strA) = 3 /\ Len(strB) = 3
  /\ \E i \in 1..3 : Chars(strA)[i] = "A"
  /\ LET x == toLowerCase(Chars(strA))
         y == toLowerCase(Chars(strB))
     IN  x[1] = y[1] /\ x[2] = y[3] /\ x[3] = y[2] /\ x[2] # x[3]
  /\ dist = 1

\* C10: the triangle inequality, d(a, b) <= d(a, c) + d(c, b), for all strings.
C10_Triangle ==
  Measured =>
    dist <= damerauLevenshtein(strA, strC) + damerauLevenshtein(strC, strB)

(***************************************************************************)
(* Trie (src/lib/search-engine.ts). The tree is a function from the path   *)
(* of a node (the lowercased characters from the root) to the node; the    *)
(* children of a node are kept in the order of their insertion, as the     *)
(* Map of the code keeps them.                                             *)
(***************************************************************************)

\* new TrieNode()
TrieNode == [children |-> <<>>, isEnd |-> FALSE, word |-> ""]

\* new Trie()
emptyTrie == (<<>> :> TrieNode)

InSeq(s, x) == \E i \in 1..Len(s) : s[i] = x

\* The loop of insert from character k on: the child is made when missing.
RECURSIVE insertFrom(_, _, _)
insertFrom(t, lower, k) ==
  IF k > Len(lower) THEN t
  ELSE LET path == SubSeq(lower, 1, k - 1)
           ch == lower[k]
       IN  IF InSeq(t[path].children, ch) THEN insertFrom(t, lower, k + 1)
           ELSE insertFrom(
                  [x \in DOMAIN t \cup {Append(path, ch)} |->
                     IF x = path THEN [t[x] EXCEPT !.children = Append(@, ch)]
                     ELSE IF x \in DOMAIN t THEN t[x]
                     ELSE TrieNode],
                  lower, k + 1)

\* Trie.insert(word) that keeps the word a terminal node already holds
trieInsertKeepFirst(t, word) ==
  LET lower == toLowerCase(Chars(word))
      made == insertFrom(t, lower, 1)
  IN  IF made[lower].isEnd THEN made
      ELSE [made EXCEPT ![lower] = [@ EXCEPT !.isEnd = TRUE, !.word = word]]

\* Trie.insert(word)
trieInsert(t, word) ==
  LET lower == toLowerCase(Chars(word))
      made == insertFrom(t, lower, 1)
  IN  [made EXCEPT ![lower] = [@ EXCEPT !.isEnd = TRUE, !.word = word]]

\* Trie._collect(node, results, limit), and its loop over the children of the
\* node from child k on.
RECURSIVE collect(_, _, _, _)
RECURSIVE collectChildren(_, _, _, _, _)
collect(t, path, found, limit) ==
  IF Len(found) >= limit THEN found
  ELSE collectChildren(t, path, 1,
                       IF t[path].isEnd THEN Append(found, t[path].word) ELSE found,
                       limit)
collectChildren(t, path, k, found, limit) ==
  IF k > Len(t[path].children) \/ Len(found) >= limit THEN found
  ELSE collectChildren(t, path, k + 1,
                       collect(t, Append(path, t[path].children[k]), found, limit),
                       limit)

\* Trie.search(prefix, limit)
trieSearch(t, prefix, limit) ==
  LET lower == toLowerCase(Chars(prefix))
  IN  IF lower \notin DOMAIN t THEN <<>> ELSE collect(t, lower, <<>>, limit)

(***************************************************************************)
(* Scores. A score s of the code is held as the integer s * ScoreScale;    *)
(* every quotient the code forms divides ScoreScale, so the arithmetic is  *)
(* exact.                                                                  *)
(***************************************************************************)

ScoreScale == 1000 * 360360

\* (num / den) as a score, for 0 <= num <= den.
Ratio(num, den) == (ScoreScale \div den) * num

(***************************************************************************)
(* fuzzyMatch                                                              *)
(***************************************************************************)

\* Array.prototype.sort with a comparator: a stable sort. before[i][j] holds
\* when the comparator puts s[i] strictly before s[j]; an element goes after
\* the elements that come before it and after the earlier elements it ties
\* with.
stableSort(s, before) ==
  LET place(i) == 1 + Cardinality({j \in 1..Len(s) :
                        \/ before[j][i]
                        \/ (j < i /\ ~before[i][j])})
  IN  [r \in 1..Len(s) |-> s[CHOOSE i \in 1..Len(s) : place(i) = r]]

\* Array.prototype.slice(0, limit), limit >= 0
slice(s, limit) == SubSeq(s, 1, Min2(limit, Len(s)))

\* Math.max(1, Math.floor(q.length / 3)) without the floor of 1
thresholdNoFloor(q) == Len(q) \div 3

\* Math.max(1, Math.floor(q.length / 3))
threshold(q) == IF Len(q) \div 3 > 1 THEN Len(q) \div 3 ELSE 1

\* The loop of fuzzyMatch over the corpus from word k on.
RECURSIVE fuzzyScan(_, _, _, _, _)
fuzzyScan(q, words, maxDist, k, found) ==
  IF k > Len(words) THEN found
  ELSE LET w == toLowerCase(Chars(words[k]))
           far == IF Len(w) >= Len(q) THEN Len(w) - Len(q) ELSE Len(q) - Len(w)
           d == distanceChars(q, w)
           maxLen == IF Len(q) >= Len(w) THEN Len(q) ELSE Len(w)
       IN  IF far > maxDist \/ d > maxDist THEN fuzzyScan(q, words, maxDist, k + 1, found)
           ELSE fuzzyScan(q, words, maxDist, k + 1,
                          Append(found, [word |-> words[k], distance |-> d,
                                         score |-> Ratio(maxLen - d, maxLen)]))

fuzzyBefore(x, y) ==
  x.distance < y.distance \/ (x.distance = y.distance /\ x.score > y.score)

\* (a, b) => a.distance - b.distance || b.score - a.score, on a list
fuzzyOrder(s) == [i \in 1..Len(s) |-> [j \in 1..Len(s) |-> fuzzyBefore(s[i], s[j])]]

fuzzyMatch(queryText, words, maxDist) ==
  LET found == fuzzyScan(toLowerCase(Chars(queryText)), words, maxDist, 1, <<>>)
  IN  stableSort(found, fuzzyOrder(found))

\* maxDist ?? Math.max(1, Math.floor(q.length / 3)); an omitted argument is
\* Null
thresholdOf(maxDist, q) == IF maxDist = Null THEN threshold(q) ELSE maxDist[1]

\* fuzzyMatch(query, corpus, maxDist?) as the exported function
fuzzyMatchCall(queryText, words, maxDist) ==
  fuzzyMatch(queryText, words, thresholdOf(maxDist, toLowerCase(Chars(queryText))))

(***************************************************************************)
(* N-gram index. A gram is a string of three characters; the index maps a  *)
(* gram to its words in the order they were added (a Set of the code).     *)
(***************************************************************************)

\* getNGrams(word, 3): the windows of "$" + lowercase(word) + "$", in order.
getNGrams(word) ==
  LET w == <<"$">> \o toLowerCase(Chars(word)) \o <<"$">>
  IN  [i \in 1..(IF Len(w) >= 3 THEN Len(w) - 2 ELSE 0) |-> Str(SubSeq(w, i, i + 2))]

\* new Set(list): the elements once each, in the order of their first place.
RECURSIVE setOf(_)
setOf(s) ==
  IF s = <<>> THEN <<>>
  ELSE LET front == setOf(SubSeq(s, 1, Len(s) - 1))
       IN  IF InSeq(front, s[Len(s)]) THEN front ELSE Append(front, s[Len(s)])

\* index.get(gram).add(word) for the grams of word from gram k on.
RECURSIVE addGrams(_, _, _, _)
addGrams(index, word, grams, k) ==
  IF k > Len(grams) THEN index
  ELSE LET g == grams[k]
           bucket == IF g \in DOMAIN index THEN index[g] ELSE <<>>
           added == IF InSeq(bucket, word) THEN bucket ELSE Append(bucket, word)
       IN  addGrams([x \in DOMAIN index \cup {g} |-> IF x = g THEN added ELSE index[x]],
                    word, grams, k + 1)

\* The empty Map.
emptyIndex == [g \in {} |-> <<>>]

\* buildNGramIndex(corpus) from word k on.
RECURSIVE buildNGramIndex(_, _, _)
buildNGramIndex(index, words, k) ==
  IF k > Len(words) THEN index
  ELSE LET next == addGrams(index, words[k], getNGrams(words[k]), 1)
       IN  IF next = next THEN buildNGramIndex(next, words, k + 1) ELSE next

\* candidateCount.set(w, (candidateCount.get(w) ?? 0) + 1): an entry keeps its
\* place in the Map, a new one goes last.
bump(counts, w) ==
  IF \E i \in 1..Len(counts) : counts[i].word = w
    THEN [i \in 1..Len(counts) |->
            IF counts[i].word = w THEN [counts[i] EXCEPT !.shared = @ + 1] ELSE counts[i]]
    ELSE Append(counts, [word |-> w, shared |-> 1])

RECURSIVE bumpAll(_, _, _)
bumpAll(counts, bucket, k) ==
  IF k > Len(bucket) THEN counts ELSE bumpAll(bump(counts, bucket[k]), bucket, k + 1)

\* The first loop of ngramSearch: over the query grams from gram k on.
RECURSIVE countCandidates(_, _, _, _)
countCandidates(index, queryGrams, k, counts) ==
  IF k > Len(queryGrams) THEN counts
  ELSE countCandidates(index, queryGrams, k + 1,
         IF queryGrams[k] \in DOMAIN index
           THEN bumpAll(counts, index[queryGrams[k]], 1) ELSE counts)

\* The second loop: the Jaccard score of each candidate, kept when > 0.1.
RECURSIVE jaccardScan(_, _, _, _)
jaccardScan(counts, queryGrams, k, found) ==
  IF k > Len(counts) THEN found
  ELSE LET wordGrams == setOf(getNGrams(counts[k].word))
           union == Len(queryGrams) + Len(wordGrams) - counts[k].shared
           jaccard == IF union > 0 THEN Ratio(counts[k].shared, union) ELSE 0
       IN  jaccardScan(counts, queryGrams, k + 1,
             IF jaccard > ScoreScale \div 10
               THEN Append(found, [word |-> counts[k].word, score |-> jaccard])
               ELSE found)

\* (a, b) => a.score - b.score: the ascending order
scoreBeforeAscending(x, y) == x.score < y.score

\* (a, b) => b.score - a.score, on a list
scoreBefore(x, y) == x.score > y.score
scoreOrder(s) == [i \in 1..Len(s) |-> [j \in 1..Len(s) |-> scoreBefore(s[i], s[j])]]

ngramSearch(queryText, index, limit) ==
  LET queryGrams == setOf(getNGrams(queryText))
      counts == countCandidates(index, queryGrams, 1, <<>>)
      found == jaccardScan(counts, queryGrams, 1, <<>>)
  IN  slice(stableSort(found, scoreOrder(found)), limit)

(***************************************************************************)
(* predict and initSearchEngine. The module-level singletons _corpus,      *)
(* _trie and _ngramIndex are the variables corpus, trie and ngramIndex.    *)
(* Scores are exact fractions; the rounding of the code's floating-point   *)
(* arithmetic is not modelled.                                             *)
(***************************************************************************)

\* The weights of predict, in thousandths.
W_PREFIX == 1000
W_TRIE == 800
W_NGRAM == 550
W_FUZZY == 400

\* The limits predict passes to Trie.search and ngramSearch.
TrieLimit == 10
NGramLimit == 10

\* weight * score
Weighted(weight, score) == (score \div 1000) * weight
\* weight * score * 0.3 and weight * score * 0.2
NGramBoost(score) == (Weighted(W_NGRAM, score) \div 10) * 3
FuzzyBoost(score) == (Weighted(W_FUZZY, score) \div 10) * 2

lower(word) == Str(toLowerCase(Chars(word)))

\* The Map scored: its entries in the order of their insertion.
mapHas(m, w) == \E i \in 1..Len(m) : m[i].word = w
mapGet(m, w) == IF mapHas(m, w) THEN m[CHOOSE i \in 1..Len(m) : m[i].word = w].score ELSE 0
mapSet(m, w, v) ==
  IF mapHas(m, w)
    THEN [i \in 1..Len(m) |-> IF m[i].word = w THEN [word |-> w, score |-> v] ELSE m[i]]
    ELSE Append(m, [word |-> w, score |-> v])

\* The state of predict between its layers: the Set seen and the Map scored.
noneSeen == [seen |-> {}, scored |-> <<>>]

\* Layer 1 taking only the corpus words equal to q.
RECURSIVE prefixLayerExact(_, _, _, _)
prefixLayerExact(q, words, k, st) ==
  IF k > Len(words) THEN st
  ELSE prefixLayerExact(q, words, k + 1,
         IF lower(words[k]) = q
           THEN [seen |-> st.seen \cup {lower(words[k])},
                 scored |-> mapSet(st.scored, words[k],
                                   Weighted(W_PREFIX, Ratio(Len(q), Len(words[k]))))]
           ELSE st)

\* Layer 1: the corpus words that start with q, from word k on.
RECURSIVE prefixLayer(_, _, _, _)
prefixLayer(q, words, k, st) ==
  IF k > Len(words) THEN st
  ELSE prefixLayer(q, words, k + 1,
         IF startsWith(Chars(lower(words[k])), Chars(q))
           THEN [seen |-> st.seen \cup {lower(words[k])},
                 scored |-> mapSet(st.scored, words[k],
                                   Weighted(W_PREFIX, Ratio(Len(q), Len(words[k]))))]
           ELSE st)

\* Layer 2: the matches of the trie, from match k on.
RECURSIVE trieLayer(_, _, _, _)
trieLayer(q, matches, k, st) ==
  IF k > Len(matches) THEN st
  ELSE trieLayer(q, matches, k + 1,
         IF lower(matches[k]) \notin st.seen
           THEN [seen |-> st.seen \cup {lower(matches[k])},
                 scored |-> mapSet(st.scored, matches[k],
                                   Weighted(W_TRIE, Ratio(Len(q), Len(matches[k]))))]
           ELSE st)

\* Layer 3: the matches of ngramSearch, from match k on.
RECURSIVE ngramLayer(_, _, _)
ngramLayer(matches, k, st) ==
  IF k > Len(matches) THEN st
  ELSE LET word == matches[k].word
           score == matches[k].score
       IN  ngramLayer(matches, k + 1,
             IF lower(word) \notin st.seen
               THEN [seen |-> st.seen \cup {lower(word)},
                     scored |-> mapSet(st.scored, word, Weighted(W_NGRAM, score))]
               ELSE [st EXCEPT !.scored =
                       mapSet(@, word, mapGet(@, word) + NGramBoost(score))])

\* Layer 4: the matches of fuzzyMatch, from match k on.
RECURSIVE fuzzyLayer(_, _, _)
fuzzyLayer(matches, k, st) ==
  IF k > Len(matches) THEN st
  ELSE LET word == matches[k].word
           score == matches[k].score
       IN  fuzzyLayer(matches, k + 1,
             IF lower(word) \notin st.seen
               THEN [seen |-> st.seen \cup {lower(word)},
                     scored |-> mapSet(st.scored, word, Weighted(W_FUZZY, score))]
               ELSE [st EXCEPT !.scored =
                       mapSet(@, word, mapGet(@, word) + FuzzyBoost(score))])

\* The four layers in their order: the Map scored at line 304.
scoredBy(q, words, t, index) ==
  LET st1 == prefixLayer(q, words, 1, noneSeen)
      st2 == trieLayer(q, trieSearch(t, q, TrieLimit), 1, st1)
      st3 == IF Len(q) >= 2
               THEN ngramLayer(ngramSearch(q, index, NGramLimit), 1, st2) ELSE st2
      st4 == IF Len(q) >= 3
               THEN fuzzyLayer(fuzzyMatch(q, words, threshold(q)), 1, st3) ELSE st3
  IN  st4.scored

\* The tag without the edit-distance test.
sourceWithoutFuzzy(q, word, t) ==
  LET key == lower(word)
      first == trieSearch(t, q, 1)
  IN  IF startsWith(Chars(key), Chars(q)) THEN "prefix"
      ELSE IF \E i \in 1..Len(first) : lower(first[i]) = key THEN "trie"
      ELSE "ngram"

\* The source tag of a scored word.
sourceOf(q, word, t) ==
  LET key == lower(word)
      first == trieSearch(t, q, 1)
  IN  IF startsWith(Chars(key), Chars(q)) THEN "prefix"
      ELSE IF \E i \in 1..Len(first) : lower(first[i]) = key THEN "trie"
      ELSE IF damerauLevenshtein(q, key) <= threshold(q) THEN "fuzzy"
      ELSE "ngram"

\* The result list before it is sorted.
tagged(q, words, t, index) ==
  LET scored == scoredBy(q, words, t, index)
  IN  [i \in 1..Len(scored) |->
        [text |-> scored[i].word, source |-> sourceOf(q, scored[i].word, t),
         score |-> scored[i].score]]

\* The first `limit` entries without the sort.
topUnsorted(list, limit) == slice(list, limit)

\* results.sort((a, b) => b.score - a.score).slice(0, limit)
top(list, limit) == slice(stableSort(list, scoreOrder(list)), limit)

\* predict on the singletons given: words, t and index are what _corpus, _trie
\* and _ngramIndex hold, Null when they are null.
predictFrom(queryText, limit, words, t, index) ==
  IF trim(Chars(queryText)) = <<>> \/ t = Null \/ index = Null \/ words = Null
    THEN <<>>
    ELSE top(tagged(lower(queryText), words[1], t[1], index[1]), limit)

predict(queryText, limit) == predictFrom(queryText, limit, corpus, trie, ngramIndex)

\* (next = next holds always: it has the tree built before the next word is
\* inserted, instead of one nest of pending inserts being built at the end.)
RECURSIVE insertAll(_, _, _)
insertAll(t, words, k) ==
  IF k > Len(words) THEN t
  ELSE LET next == trieInsert(t, words[k])
       IN  IF next = next THEN insertAll(next, words, k + 1) ELSE next

(***************************************************************************)
(* The engine as a state machine: initSearchEngine once (every caller      *)
(* guards it with a ready flag), then one call of predict.                 *)
(***************************************************************************)

MaxCorpusChars == 4
MaxPredictLen == 3
MaxLimit == 2
PredictChars == {"a", "b"}

\* The strings of exactly n characters of S.
WordsOfLen(S, n) == {Str(cs) : cs \in [1..n -> S]}

\* The lists of non-empty words of PredictChars with at most n characters in
\* all; the same word may be listed more than once.
RECURSIVE Corpora(_)
Corpora(n) ==
  {<<>>} \cup UNION {{<<w>> \o c : w \in WordsOfLen(PredictChars, k), c \in Corpora(n - k)}
                     : k \in 1..n}

\* The corpora of the engine. The first word begins with "a": exchanging the
\* two letters in the corpus and in the query turns any other case into one
\* of these.
EngineCorpora ==
  {c \in Corpora(MaxCorpusChars) : c = <<>> \/ SubSeq(c[1], 1, 1) = "a"}

\* The queries: the strings of PredictChars, a blank one and two with a
\* capital.
Queries == StringsUpTo(PredictChars, MaxPredictLen) \cup {" ", "Ab", "bA"}

InitPredict == EngineIdle /\ ResolverIdle /\ DistanceIdle /\ CallIdle /\ ServerIdle /\ BarIdle

\* initSearchEngine(extraCorpus), where words is [...COMMON_QUERIES, ...extraCorpus]
initSearchEngine(words) ==
  /\ corpus = Null
  /\ results = Null
  /\ corpus' = Some(words)
  /\ trie' = Some(insertAll(emptyTrie, words, 1))
  /\ ngramIndex' = Some(buildNGramIndex(emptyIndex, words, 1))
  /\ UNCHANGED <<query, url, pquery, plimit, results, strA, strB, strC, dist,
                 callVars, serverVars,
                 barVars>>

\* One call predict(q, limit); results holds what it returned.
Predict(q, limit) ==
  /\ results = Null
  /\ pquery' = q
  /\ plimit' = limit
  /\ results' = Some(predict(q, limit))
  /\ UNCHANGED <<query, url, corpus, trie, ngramIndex, strA, strB, strC, dist,
                 callVars, serverVars,
                 barVars>>

NextPredict ==
  \/ \E words \in EngineCorpora : initSearchEngine(words)
  \/ \E q \in Queries, limit \in 0..MaxLimit : Predict(q, limit)

SpecPredict == InitPredict /\ [][NextPredict]_vars

(***************************************************************************)
(* What the resolver's contract says, stated without the code's steps:     *)
(* positions are described by what holds of them, not found by a scan.     *)
(***************************************************************************)

\* s without its leading and trailing white space.
RefTrim(s) ==
  LET cut == CHOOSE p \in (1..(Len(s) + 1)) \X (0..Len(s)) :
               /\ p[1] <= p[2] + 1
               /\ \A k \in 1..(p[1] - 1) : IsSpace(s[k])
               /\ \A k \in (p[2] + 1)..Len(s) : IsSpace(s[k])
               /\ p[1] <= p[2] => ~IsSpace(s[p[1]]) /\ ~IsSpace(s[p[2]])
  IN  SubSeq(s, cut[1], cut[2])

\* A bang token starts at i: a "!" with a non-space character after it.
BangAt(q, i) == i < Len(q) /\ q[i] = "!" /\ ~IsSpace(q[i + 1])

\* The same, and the "!" starts a white-space-delimited token.
TokenBangAt(q, i) == BangAt(q, i) /\ (i = 1 \/ IsSpace(q[i - 1]))

\* The parts of q around the bang token that starts at i (i = 0: no token):
\* the token's text after "!", and q with the token and the white space that
\* follows it taken out, trimmed.
RefParts(q, i) ==
  IF i = 0 THEN [present |-> FALSE, trigger |-> <<>>, rest |-> RefTrim(q)]
  ELSE LET e == CHOOSE e \in (i + 1)..Len(q) :
                  /\ \A k \in (i + 1)..e : ~IsSpace(q[k])
                  /\ e < Len(q) => IsSpace(q[e + 1])
           f == CHOOSE f \in e..Len(q) :
                  /\ \A k \in (e + 1)..f : IsSpace(q[k])
                  /\ f < Len(q) => ~IsSpace(q[f + 1])
       IN  [present |-> TRUE,
            trigger |-> toLowerCase(SubSeq(q, i + 1, e)),
            rest |-> RefTrim(SubSeq(q, 1, i - 1) \o SubSeq(q, f + 1, Len(q)))]

\* The leftmost bang token of q: any "!" followed by a non-space character.
RefBang(q) ==
  LET at == {i \in 1..Len(q) : BangAt(q, i) /\ \A j \in 1..(i - 1) : ~BangAt(q, j)}
  IN  RefParts(q, IF at = {} THEN 0 ELSE CHOOSE i \in at : TRUE)

\* The leftmost white-space-delimited bang token of q.
RefTokenBang(q) ==
  LET at == {i \in 1..Len(q) :
               TokenBangAt(q, i) /\ \A j \in 1..(i - 1) : ~TokenBangAt(q, j)}
  IN  RefParts(q, IF at = {} THEN 0 ELSE CHOOSE i \in at : TRUE)

Registry == {BANGS[i] : i \in 1..Len(BANGS)}
Triggers == {b.trigger : b \in Registry}
RefDefault == CHOOSE b \in Registry : b.trigger = <<"g">>
RefSelected(trigger) ==
  IF trigger \in Triggers THEN CHOOSE b \in Registry : b.trigger = trigger
  ELSE RefDefault

\* Component percent-encoding with "/" kept: character by character.
RefEncode(rest) ==
  Flatten([i \in 1..Len(rest) |-> IF rest[i] = "/" THEN <<"/">> ELSE encodeChar(rest[i])])

\* The template with its placeholder replaced by enc and nothing else changed.
RefFill(template, enc) ==
  LET k == CHOOSE k \in 1..Len(template) :
             SubSeq(template, k, k + Len(Placeholder) - 1) = Placeholder
  IN  Str(SubSeq(template, 1, k - 1) \o enc
          \o SubSeq(template, k + Len(Placeholder), Len(template)))

Count(s, ch) == Cardinality({i \in 1..Len(s) : s[i] = ch})

\* The URL the contract gives a query whose bang token is described by parts.
RefUrl(parts) ==
  LET bang == RefSelected(parts.trigger)
  IN  IF parts.rest # <<>> THEN RefFill(bang.url, RefEncode(parts.rest))
      ELSE IF parts.present THEN Str(Chars("https://") \o bang.domain)
      ELSE "https://www.google.com"

Resolved == url # NoUrl

\* C1: for every query whose remainder rest (the query with its first bang
\* token and the white space after it removed once, then trimmed) is not
\* empty, the URL is the selected bang's template with {{{s}}} replaced by the
\* component-percent-encoding of rest in which "/" alone is left unescaped:
\* every "/" of rest is literal, "%2F" never appears, every other escaped
\* character stays escaped, and the rest of the template is untouched.
C1_EncodedRemainder ==
  Resolved =>
    LET parts == RefTokenBang(Chars(query))
        bang == RefSelected(parts.trigger)
    IN  parts.rest # <<>> =>
          /\ url = RefFill(bang.url, RefEncode(parts.rest))
          /\ indexOf(Chars(url), Chars("%2F"), 1) = 0
          /\ Count(Chars(url), "/") = Count(bang.url, "/") + Count(parts.rest, "/")

\* The same with the bang token taken as getBangRedirectUrl matches it, a "!"
\* inside a word included.
EncodedRemainderAsMatched ==
  Resolved =>
    LET parts == RefBang(Chars(query))
        bang == RefSelected(parts.trigger)
    IN  parts.rest # <<>> =>
          /\ url = RefFill(bang.url, RefEncode(parts.rest))
          /\ indexOf(Chars(url), Chars("%2F"), 1) = 0
          /\ Count(Chars(url), "/") = Count(bang.url, "/") + Count(parts.rest, "/")

\* C2: the default bang g is used whenever no registered trigger is selected.
\* A query with no bang token gives https://www.google.com when blank and the
\* default template filled with the encoded trimmed query otherwise; a query
\* whose trigger is not in the registry gives the default bang's template (its
\* domain, when nothing else is left) with the unknown token taken out.
C2_DefaultBang ==
  Resolved =>
    LET q == Chars(query)
        parts == RefTokenBang(q)
    IN  /\ ~parts.present =>
             url = IF RefTrim(q) = <<>> THEN "https://www.google.com"
                   ELSE RefFill(RefDefault.url, RefEncode(RefTrim(q)))
        /\ (parts.present /\ parts.trigger \notin Triggers) =>
             url = IF parts.rest = <<>> THEN Str(Chars("https://") \o RefDefault.domain)
                   ELSE RefFill(RefDefault.url, RefEncode(parts.rest))

\* The same with the bang token taken as getBangRedirectUrl matches it.
DefaultBangAsMatched ==
  Resolved =>
    LET q == Chars(query)
        parts == RefBang(q)
    IN  /\ ~parts.present =>
             url = IF RefTrim(q) = <<>> THEN "https://www.google.com"
                   ELSE RefFill(RefDefault.url, RefEncode(RefTrim(q)))
        /\ (parts.present /\ parts.trigger \notin Triggers) =>
             url = IF parts.rest = <<>> THEN Str(Chars("https://") \o RefDefault.domain)
                   ELSE RefFill(RefDefault.url, RefEncode(parts.rest))

\* A query that is one bang token and white space around it, nothing else.
OnlyBang(q) ==
  \E i \in 1..Len(q) : \E j \in (i + 1)..Len(q) :
    /\ q[i] = "!"
    /\ \A k \in i..j : ~IsSpace(q[k])
    /\ \A k \in (1..(i - 1)) \cup ((j + 1)..Len(q)) : IsSpace(q[k])

\* C3: a query that is only a bang token (white space around it allowed) gives
\* https://<domain> of the selected bang, the default bang's when the trigger
\* is unknown, never a template filled with nothing; with nothing left to
\* search for, the home URL is the answer exactly when no bang token is there.
C3_BareSite ==
  Resolved =>
    LET q == Chars(query)
        parts == RefTokenBang(q)
        bang == RefSelected(parts.trigger)
    IN  /\ OnlyBang(q) =>
             /\ url = Str(Chars("https://") \o bang.domain)
             /\ url # RefFill(bang.url, <<>>)
        /\ parts.rest = <<>> =>
             /\ parts.present <=> OnlyBang(q)
             /\ ~parts.present => url = "https://www.google.com"
             /\ url = "https://www.google.com" =>
                  ~parts.present \/ bang.domain = Chars("www.google.com")

\* C3 witness: a resolved query that is white space around one registered
\* bang whose site is not the default bang's.
C3_Witness ==
  /\ Resolved
  /\ LET q == Chars(query)
     IN  /\ OnlyBang(q) /\ IsSpace(q[1]) /\ IsSpace(q[Len(q)])
         /\ RefTokenBang(q).trigger = <<"g", "h">>
  /\ url = "https://github.com"

\* C4: the trigger is the lowercased text after "!" of the leftmost
\* white-space-delimited token of the form !<non-space>+; a "!" inside a word
\* selects no bang and removes nothing; only the leftmost such token selects
\* the bang and is removed, later ones stay in the search text.
C4_TokenDelimited ==
  Resolved => url = RefUrl(RefTokenBang(Chars(query)))

\* C10 as amended: the triangle inequality holds whenever no alignment of
\* either pair on the right gains from a transposition, that is, whenever the
\* Optimal String Alignment distance of (a, c) and of (c, b) equals their
\* Levenshtein distance.
C10_TriangleWithoutTransposition ==
  Measured =>
    LET a == toLowerCase(Chars(strA))
        b == toLowerCase(Chars(strB))
        c == toLowerCase(Chars(strC))
    IN  \/ dist <= damerauLevenshtein(strA, strC) + damerauLevenshtein(strC, strB)
        \/ RefOSA(a, c) # RefLevenshtein(a, c)
        \/ RefOSA(c, b) # RefLevenshtein(c, b)

\* C10 witness: three different measured strings, at least two edits from
\* strA to strB, where neither pair on the right gains from a transposition
\* and the inequality is tight.
C10_Witness ==
  /\ Measured
  /\ strA # strB /\ strA # strC /\ strB # strC
  /\ dist >= 2
  /\ LET a == Chars(strA)
         b == Chars(strB)
         c == Chars(strC)
     IN  /\ RefOSA(a, c) = RefLevenshtein(a, c)
         /\ RefOSA(c, b) = RefLevenshtein(c, b)
  /\ dist = damerauLevenshtein(strA, strC) + damerauLevenshtein(strC, strB)

(***************************************************************************)
(* What the prediction engine's contract says, stated without the code's   *)
(* loops: the layers a word belongs to, the score they give it, its tag.   *)
(***************************************************************************)

\* The character 3-grams of "$" + lowercase(word) + "$", as a set.
RefGrams(word) ==
  LET w == <<"$">> \o toLowerCase(Chars(word)) \o <<"$">>
  IN  {SubSeq(w, i, i + 2) : i \in 1..(Len(w) - 2)}

\* |A n B| / |A u B| of the two gram sets.
RefJaccard(x, y) ==
  LET gx == RefGrams(x)
      gy == RefGrams(y)
      both == gx \cap gy
      any == gx \cup gy
  IN  IF any = {} THEN 0 ELSE Ratio(Cardinality(both), Cardinality(any))

RefEdits(x, y) == RefOSA(toLowerCase(Chars(x)), toLowerCase(Chars(y)))

RefMaxDist(q) == IF Len(q) >= 6 THEN Len(q) \div 3 ELSE 1

\* 1 - distance / max(|q|, |w|)
RefFuzzyScore(q, w) ==
  LET longest == IF Len(q) >= Len(w) THEN Len(q) ELSE Len(w)
  IN  Ratio(longest - RefEdits(q, w), longest)

\* The layers that contribute the word w to the lowercased query q.
RefPrefix(q, w) == startsWith(toLowerCase(Chars(w)), Chars(q))
RefNGram(q, w) == Len(q) >= 2 /\ RefJaccard(q, w) > ScoreScale \div 10
RefFuzzy(q, w) == Len(q) >= 3 /\ RefEdits(q, w) <= RefMaxDist(q)
RefCandidate(q, w) == RefPrefix(q, w) \/ RefNGram(q, w) \/ RefFuzzy(q, w)

\* The score of w: the base of its first layer, and each later layer's boost
\* once. (The trie layer is never first: a word the trie returns starts with
\* the query, and the prefix scan has contributed it.)
RefScore(q, w) ==
  LET base == IF RefPrefix(q, w) THEN Ratio(Len(q), Len(w))
              ELSE IF RefNGram(q, w) THEN Weighted(W_NGRAM, RefJaccard(q, w))
              ELSE IF RefFuzzy(q, w) THEN Weighted(W_FUZZY, RefFuzzyScore(q, w))
              ELSE 0
      ngramBoost == IF RefPrefix(q, w) /\ RefNGram(q, w)
                      THEN NGramBoost(RefJaccard(q, w)) ELSE 0
      fuzzyBoost == IF (RefPrefix(q, w) \/ RefNGram(q, w)) /\ RefFuzzy(q, w)
                      THEN FuzzyBoost(RefFuzzyScore(q, w)) ELSE 0
  IN  base + ngramBoost + fuzzyBoost

\* The tag of w.
RefSource(q, w) ==
  IF RefPrefix(q, w) THEN "prefix"
  ELSE IF \E i \in 1..Len(corpus[1]) :
            /\ lower(corpus[1][i]) = lower(w)
            /\ startsWith(Chars(lower(w)), Chars(q)) THEN "trie"
  ELSE IF RefEdits(q, w) <= RefMaxDist(q) THEN "fuzzy"
  ELSE "ngram"

\* predict has returned, from an initialised engine and a query that is not
\* blank.
Predicted == results # Null /\ corpus # Null /\ trim(Chars(pquery)) # <<>>

Returned == results[1]
ReturnedTexts == {Returned[i].text : i \in 1..Len(Returned)}
CorpusWords == {corpus[1][i] : i \in 1..Len(corpus[1])}
Candidates == {w \in CorpusWords : RefCandidate(lower(pquery), w)}

\* The scores the four layers gave the candidates, and the score of one.
Scored == scoredBy(lower(pquery), corpus[1], trie[1], ngramIndex[1])
ScoreIn(scored, w) == mapGet(scored, w)

\* C5: the score of every returned word is the base score of the first layer
\* that contributed it plus the n-gram boost once and the fuzzy boost once,
\* also for a word the corpus lists more than once.
C5_LayeredScore ==
  Predicted =>
    \A i \in 1..Len(Returned) :
      Returned[i].score = RefScore(lower(pquery), Returned[i].text)

\* C6: every returned prediction has a score in [0, 1].
C6_ScoreInUnitInterval ==
  results # Null =>
    \A i \in 1..Len(Returned) :
      Returned[i].score >= 0 /\ Returned[i].score <= ScoreScale

\* C7: predict returns at most `limit` predictions, in non-increasing score
\* order, no two with texts equal ignoring case; they are the highest-scored
\* candidates of the layers (all of them when there are at most `limit`, and
\* no candidate left out scores strictly higher than a returned one); the
\* list is empty for a blank query and for an engine that is not initialised.
C7_TopByScore ==
  results # Null =>
    /\ Len(Returned) <= plimit
    /\ \A i, j \in 1..Len(Returned) :
         i < j => /\ Returned[i].score >= Returned[j].score
                  /\ lower(Returned[i].text) # lower(Returned[j].text)
    /\ (corpus = Null \/ trim(Chars(pquery)) = <<>>) => Returned = <<>>
    /\ Predicted =>
         LET scored == Scored
             cands == Candidates
         IN  /\ ReturnedTexts \subseteq cands
             /\ Len(Returned) = Min2(plimit, Cardinality(cands))
             /\ \A i \in 1..Len(Returned) :
                  Returned[i].score = ScoreIn(scored, Returned[i].text)
             /\ \A w \in cands \ ReturnedTexts : \A i \in 1..Len(Returned) :
                  ScoreIn(scored, w) <= Returned[i].score

\* C7 witness: a limit of 1 cuts off a candidate with a strictly lower score
\* that the corpus lists before the returned one.
C7_Witness ==
  /\ Predicted
  /\ plimit = 1 /\ Len(Returned) = 1
  /\ \E w \in Candidates \ ReturnedTexts :
       /\ ScoreIn(Scored, w) < Returned[1].score
       /\ corpus[1][1] = w

\* The query is a mistyping of the corpus word w: at least three characters,
\* within the fuzzy distance of w, and w does not start with it.
Mistyped(q, w) ==
  /\ Len(q) >= 3
  /\ ~RefPrefix(q, w)
  /\ RefEdits(q, w) <= RefMaxDist(q)

TypoReturned(w) ==
  \E i \in 1..Len(Returned) :
    /\ Returned[i].text = w
    /\ Returned[i].source \in {"fuzzy", "ngram"}
    /\ Returned[i].score > 0

TagsFollowRule ==
  \A i \in 1..Len(Returned) :
    Returned[i].source = RefSource(lower(pquery), Returned[i].text)

\* C8 as stated: every tag follows the rule prefix, trie, fuzzy, n-gram; and
\* a corpus word w the query is a mistyping of is returned with the tag fuzzy
\* or ngram and a positive score whenever fewer than `limit` candidates score
\* higher than w.
C8_TagAndTypo ==
  Predicted =>
    /\ TagsFollowRule
    /\ LET scored == Scored
           cands == Candidates
       IN  \A w \in CorpusWords :
             (/\ Mistyped(lower(pquery), w)
              /\ Cardinality({c \in cands : ScoreIn(scored, c) > ScoreIn(scored, w)}) < plimit)
               => TypoReturned(w)

\* C8 with the ties counted: every tag follows the rule; and a corpus word w
\* the query is a mistyping of is returned with the tag fuzzy or ngram and a
\* positive score whenever fewer than `limit` other candidates score at least
\* as high as w.
C8_TagAndTypoTies ==
  Predicted =>
    /\ TagsFollowRule
    /\ LET scored == Scored
           cands == Candidates
       IN  \A w \in CorpusWords :
             (/\ Mistyped(lower(pquery), w)
              /\ Cardinality({c \in cands \ {w} :
                                ScoreIn(scored, c) >= ScoreIn(scored, w)}) < plimit)
               => TypoReturned(w)

\* C8 witness: two words the query is a mistyping of tie, and both are
\* returned with the tag fuzzy.
C8_Witness ==
  /\ Predicted
  /\ Len(Returned) = 2
  /\ Returned[1].score = Returned[2].score
  /\ \A i \in 1..2 :
       /\ Mistyped(lower(pquery), Returned[i].text)
       /\ Returned[i].source = "fuzzy"
       /\ TypoReturned(Returned[i].text)

(***************************************************************************)
(* fuzzyMatch as a library call: one query, one corpus, maxDist given or   *)
(* omitted.                                                                *)
(***************************************************************************)

MaxFuzzyCorpus == 3

\* The words of a corpus: non-empty, as every word of COMMON_QUERIES and of
\* the bang names and triggers; one with a capital, one of four characters.
FuzzyWords == {"a", "ab", "ba", "aB", "abb", "abab"}

\* The queries: the empty one, short ones, one with a capital and one of six
\* characters, whose default threshold is 2.
FuzzyQueries == {"", "a", "ab", "Ab", "abb", "ababab"}

FuzzyCorpora == SeqsUpTo(FuzzyWords, MaxFuzzyCorpus)

\* maxDist: omitted, or given
FuzzyMaxDists == {Null, Some(0), Some(1), Some(2)}

InitFuzzy ==
  /\ call \in [query : FuzzyQueries, corpus : FuzzyCorpora, maxDist : FuzzyMaxDists]
  /\ ret = Null
  /\ EngineIdle /\ ResolverIdle /\ DistanceIdle /\ ServerIdle /\ BarIdle

FuzzyCall ==
  /\ ret = Null
  /\ ret' = Some(fuzzyMatchCall(call.query, call.corpus, call.maxDist))
  /\ UNCHANGED <<query, url, corpus, trie, ngramIndex, pquery, plimit, results,
                 strA, strB, strC, dist, call, serverVars,
                 barVars>>

NextFuzzy == FuzzyCall
SpecFuzzy == InitFuzzy /\ [][NextFuzzy]_vars

\* The threshold of the contract: maxDist, by default max(1, floor(|query|/3)).
RefThreshold(maxDist, q) ==
  IF maxDist # Null THEN maxDist[1]
  ELSE IF Len(q) \div 3 >= 1 THEN Len(q) \div 3 ELSE 1

\* How many times x is listed in s.
Listed(s, x) == Cardinality({i \in 1..Len(s) : s[i] = x})

\* C11: fuzzyMatch returns one result per corpus entry within maxDist (by
\* default max(1, floor(|query|/3))) of the query and no other; no entry
\* within maxDist differs from the query in length by more than maxDist; each
\* result carries its distance and the score 1 - distance / max(|query|,
\* |word|), in [0, 1]; the results are in ascending distance, ties in
\* descending score.
C11_FuzzyMatch ==
  ret # Null =>
    LET q == call.query
        found == ret[1]
        words == call.corpus
        limit == RefThreshold(call.maxDist, Chars(q))
        edits == [i \in 1..Len(words) |-> RefEdits(q, words[i])]
        near == {i \in 1..Len(words) : edits[i] <= limit}
    IN  /\ Len(found) = Cardinality(near)
        /\ \A i \in near :
             /\ Listed(words, words[i]) =
                  Cardinality({j \in 1..Len(found) : found[j].word = words[i]})
             /\ Len(words[i]) - Len(q) <= limit
             /\ Len(q) - Len(words[i]) <= limit
        /\ \A j \in 1..Len(found) :
             /\ \E i \in near :
                  /\ words[i] = found[j].word
                  /\ found[j].distance = edits[i]
             /\ found[j].score = RefFuzzyScore(q, found[j].word)
             /\ found[j].score >= 0 /\ found[j].score <= ScoreScale
        /\ \A j \in 1..(Len(found) - 1) :
             \/ found[j].distance < found[j + 1].distance
             \/ /\ found[j].distance = found[j + 1].distance
                /\ found[j].score >= found[j + 1].score

\* A call that leaves out an entry on its length alone and one on its
\* distance, returns a word listed twice twice, and orders a tie in distance
\* by the score.
C11_Witness ==
  /\ ret # Null
  /\ call.maxDist = Null
  /\ Len(call.corpus) = 3
  /\ Len(ret[1]) = 2
  /\ ret[1][1].distance = 1 /\ ret[1][2].distance = 1
  /\ ret[1][1].score > ret[1][2].score
  /\ ret[1][1].word = call.corpus[3]
  /\ \E i \in 1..3 : Len(call.corpus[i]) > Len(call.query) + 1

(***************************************************************************)
(* ngramSearch as a library call, on the index buildNGramIndex makes of a  *)
(* corpus.                                                                 *)
(***************************************************************************)

MaxNGramCorpus == 3
MaxNGramLimit == 2

\* Words that share grams with the queries; one with a capital; japanese and
\* jailbreak share one gram with the query ja, of a union of 9 and of 10.
NGramWords == {"ab", "ba", "Ab", "abb", "bab", "japanese", "jailbreak"}

NGramQueries == {"", "a", "ab", "AB", "ba", "abb", "ja"}

NGramCorpora == SeqsUpTo(NGramWords, MaxNGramCorpus)

InitNGram ==
  /\ call \in [query : NGramQueries, corpus : NGramCorpora, limit : 0..MaxNGramLimit]
  /\ ret = Null
  /\ EngineIdle /\ ResolverIdle /\ DistanceIdle /\ ServerIdle /\ BarIdle

\* ngramSearch(query, buildNGramIndex(corpus), 3, limit)
NGramCall ==
  /\ ret = Null
  /\ ret' = Some(ngramSearch(call.query,
                             buildNGramIndex(emptyIndex, call.corpus, 1),
                             call.limit))
  /\ UNCHANGED <<query, url, corpus, trie, ngramIndex, pquery, plimit, results,
                 strA, strB, strC, dist, call, serverVars,
                 barVars>>

NextNGram == NGramCall
SpecNGram == InitNGram /\ [][NextNGram]_vars

\* C12: the score of each ngramSearch result is the Jaccard similarity of the
\* 3-gram sets of "$" + lower(query) + "$" and "$" + lower(word) + "$"; every
\* score is in (0.1, 1]; every corpus word with a Jaccard similarity above 0.1
\* is a candidate; the result is the limit highest-scored candidates, in
\* descending order of score.
C12_NGramSearch ==
  ret # Null =>
    LET q == call.query
        found == ret[1]
        words == {call.corpus[i] : i \in 1..Len(call.corpus)}
        score == [w \in words |-> RefJaccard(q, w)]
        candidates == {w \in words : score[w] > ScoreScale \div 10}
        returned == {found[j].word : j \in 1..Len(found)}
    IN  /\ \A j \in 1..Len(found) :
             /\ found[j].word \in candidates
             /\ found[j].score = score[found[j].word]
             /\ found[j].score > ScoreScale \div 10
             /\ found[j].score <= ScoreScale
        /\ Len(found) = Min2(call.limit, Cardinality(candidates))
        /\ Cardinality(returned) = Len(found)
        /\ \A w \in candidates \ returned :
             \A j \in 1..Len(found) : found[j].score >= score[w]
        /\ \A j \in 1..(Len(found) - 1) : found[j].score >= found[j + 1].score

\* A search that leaves out jailbreak, which shares a gram with the query at
\* a similarity of exactly 1/10, and returns japanese, at 1/9.
C12_Witness ==
  /\ ret # Null
  /\ call.query = "ja"
  /\ call.corpus = <<"jailbreak", "japanese", "Ab">>
  /\ ret[1] = <<[word |-> "japanese", score |-> Ratio(1, 9)]>>
  /\ RefJaccard("ja", "jailbreak") = ScoreScale \div 10


(***************************************************************************)
(* A Trie of its own: inserts, then one search. call.inserted is the list  *)
(* of the words inserted so far.                                           *)
(***************************************************************************)

MaxInserts == 3
MaxTrieLimit == 3

\* Words that share prefixes, two that differ in letter case only.
TrieWords == {"a", "ab", "Ab", "abb", "b", "ba"}

\* Prefixes of the words in either case, and two that are no prefix.
TriePrefixes == {"", "a", "A", "ab", "aB", "abb", "b", "bb", "c"}

InitTrie ==
  /\ trie = Some(emptyTrie)
  /\ call = [inserted |-> <<>>, prefix |-> "", limit |-> 0]
  /\ ret = Null
  /\ corpus = Null /\ ngramIndex = Null
  /\ pquery = "" /\ plimit = 0 /\ results = Null
  /\ ResolverIdle /\ DistanceIdle /\ ServerIdle /\ BarIdle

\* trie.insert(word)
TrieInsert(word) ==
  /\ ret = Null
  /\ Len(call.inserted) < MaxInserts
  /\ trie' = Some(trieInsert(trie[1], word))
  /\ call' = [call EXCEPT !.inserted = Append(@, word)]
  /\ UNCHANGED <<query, url, corpus, ngramIndex, pquery, plimit, results,
                 strA, strB, strC, dist, ret, serverVars,
                 barVars>>

\* trie.search(prefix, limit)
TrieSearch(prefix, limit) ==
  /\ ret = Null
  /\ call' = [call EXCEPT !.prefix = prefix, !.limit = limit]
  /\ ret' = Some(trieSearch(trie[1], prefix, limit))
  /\ UNCHANGED <<query, url, corpus, trie, ngramIndex, pquery, plimit, results,
                 strA, strB, strC, dist, serverVars,
                 barVars>>

NextTrie ==
  \/ \E word \in TrieWords : TrieInsert(word)
  \/ \E prefix \in TriePrefixes, limit \in 0..MaxTrieLimit : TrieSearch(prefix, limit)

SpecTrie == InitTrie /\ [][NextTrie]_vars

\* The lowercase form of the i-th inserted word, as characters.
RefKey(i) == toLowerCase(Chars(call.inserted[i]))

\* The stored words under the searched prefix, by their lowercase forms.
RefUnder ==
  {RefKey(i) : i \in {j \in 1..Len(call.inserted) :
                        startsWith(RefKey(j), toLowerCase(Chars(call.prefix)))}}

\* The insert that made the node at path: the first of a word through it.
RefMade(path) == Min({i \in 1..Len(call.inserted) : startsWith(RefKey(i), path)})

\* The word the trie holds for a lowercase form: the latest insert of it.
RefLatest(key) ==
  call.inserted[Max({i \in 1..Len(call.inserted) : RefKey(i) = key})]

\* Depth-first order of two different stored forms: a node before the nodes
\* below it, and below a node its children in the order they were made.
RefEarlier(u, v) ==
  LET k == Min({i \in 1..(Min2(Len(u), Len(v)) + 1) :
                  i > Len(u) \/ i > Len(v) \/ u[i] # v[i]})
  IN  IF k > Len(u) THEN TRUE
      ELSE IF k > Len(v) THEN FALSE
      ELSE RefMade(SubSeq(u, 1, k)) < RefMade(SubSeq(v, 1, k))

Searched == ret # Null

\* What C13 says of the words returned: each starts with the prefix, in
\* lowercase forms; there are no more than limit; they are in depth-first
\* order.
TrieSearchShape ==
  LET found == ret[1]
  IN  /\ \A j \in 1..Len(found) :
           toLowerCase(Chars(found[j])) \in RefUnder
      /\ Len(found) <= call.limit
      /\ \A j \in 1..Len(found) : \A k \in (j + 1)..Len(found) :
           /\ toLowerCase(Chars(found[j])) # toLowerCase(Chars(found[k]))
           /\ RefEarlier(toLowerCase(Chars(found[j])), toLowerCase(Chars(found[k])))

\* C13: after any inserts, search(p, limit) contains every inserted word w
\* that p is a prefix of, in any letter case, when limit is at least the
\* number of stored words under p; every returned word starts with p in
\* lowercase forms; there are at most limit of them; they are in the
\* depth-first order fixed by the insertion order of children.
C13_TrieSearch ==
  Searched =>
    /\ TrieSearchShape
    /\ call.limit >= Cardinality(RefUnder) =>
         \A i \in 1..Len(call.inserted) :
           RefKey(i) \in RefUnder => InSeq(ret[1], call.inserted[i])

\* C13 with the word the trie holds: of the inserted words that differ in
\* letter case only, the search returns the one inserted last.
C13_TrieSearchLatest ==
  Searched =>
    /\ TrieSearchShape
    /\ call.limit >= Cardinality(RefUnder) =>
         /\ Len(ret[1]) = Cardinality(RefUnder)
         /\ \A i \in 1..Len(call.inserted) :
              RefKey(i) \in RefUnder => InSeq(ret[1], RefLatest(RefKey(i)))

\* Three words under the prefix, searched in capitals, returned in an order
\* that is neither the order of their insertion nor the alphabetical one.
C13_Witness ==
  /\ Searched
  /\ call.inserted = <<"b", "abb", "a">>
  /\ call.prefix = "" /\ call.limit = 3
  /\ ret[1] = <<"b", "a", "abb">>

\* ab after Ab: the search returns ab alone.
C13_Recased ==
  /\ Searched
  /\ call.inserted = <<"Ab", "ab">>
  /\ call.prefix = "A" /\ call.limit = 2
  /\ ret[1] = <<"ab">>

(***************************************************************************)
(* matchBangs (src/app/page.tsx): the bangs a typed prefix stands for.     *)
(***************************************************************************)

\* The defaults of maxTier1 and maxTier2.
DefaultTier1 == 5
DefaultTier2 == 2

\* matchBangs that takes the name matches first
matchBangsNamesFirst(prefix, maxTier1, maxTier2) ==
  LET p == toLowerCase(Chars(prefix))
      byName(b) == startsWith(toLowerCase(b.name), p)
      tier2 == slice(SelectSeq(BANGS, byName), maxTier2)
      rest(b) == startsWith(b.trigger, p) /\ ~InSeq(tier2, b)
  IN  tier2 \o slice(SelectSeq(BANGS, rest), maxTier1)

\* matchBangs(prefix, maxTier1, maxTier2)
matchBangs(prefix, maxTier1, maxTier2) ==
  LET p == toLowerCase(Chars(prefix))
      byTrigger(b) == startsWith(b.trigger, p)
      tier1 == slice(SelectSeq(BANGS, byTrigger), maxTier1)
      tier1Triggers == {tier1[i].trigger : i \in 1..Len(tier1)}
      byName(b) == b.trigger \notin tier1Triggers /\ startsWith(toLowerCase(b.name), p)
      tier2 == slice(SelectSeq(BANGS, byName), maxTier2)
  IN  tier1 \o tier2

MaxBangPrefix == 3

\* Letters of the triggers and names that begin with g and m, and a capital.
PrefixChars == {"g", "h", "o", "m", "G"}

BangPrefixes == StringsUpTo(PrefixChars, MaxBangPrefix)

\* The caps of the two tiers: the defaults, and smaller ones that cut.
TierCaps == {<<DefaultTier1, DefaultTier2>>, <<2, 1>>, <<1, 2>>, <<0, 2>>, <<5, 0>>}

InitMatch ==
  /\ call \in {[prefix |-> p, maxTier1 |-> c[1], maxTier2 |-> c[2]] :
                 p \in BangPrefixes, c \in TierCaps}
  /\ ret = Null
  /\ EngineIdle /\ ResolverIdle /\ DistanceIdle /\ ServerIdle /\ BarIdle

MatchCall ==
  /\ ret = Null
  /\ ret' = Some(matchBangs(call.prefix, call.maxTier1, call.maxTier2))
  /\ UNCHANGED <<query, url, corpus, trie, ngramIndex, pquery, plimit, results,
                 strA, strB, strC, dist, call, serverVars,
                 barVars>>

NextMatch == MatchCall
SpecMatch == InitMatch /\ [][NextMatch]_vars

\* The places in the registry of the bangs with a property, in order.
RefPlaces(S) == [r \in 1..Cardinality(S) |->
                   CHOOSE i \in S : Cardinality({j \in S : j < i}) = r - 1]

\* The first at most n places of S.
RefFirstOf(S, n) == {i \in S : Cardinality({j \in S : j < i}) < n}

RefTier1(prefix, maxTier1) ==
  LET lowered == toLowerCase(Chars(prefix))
  IN  RefFirstOf({i \in 1..Len(BANGS) : startsWith(BANGS[i].trigger, lowered)},
                 maxTier1)

RefTier2(prefix, maxTier1, maxTier2) ==
  LET first == RefTier1(prefix, maxTier1)
      lowered == toLowerCase(Chars(prefix))
  IN  RefFirstOf({i \in 1..Len(BANGS) :
                    /\ i \notin first
                    /\ startsWith(toLowerCase(BANGS[i].name), lowered)},
                 maxTier2)

Matched == ret # Null

\* C14: matchBangs(prefix, maxTier1 = 5, maxTier2 = 2) returns the first at
\* most maxTier1 bangs whose trigger starts with the lowercased prefix, in
\* registry order, then the first at most maxTier2 bangs not among them whose
\* lowercased name starts with it, in registry order; no bang is returned
\* twice; there are at most 7 with the defaults; the number of trigger
\* matches returned is that of maxTier2 = 0, whatever the names.
C14_MatchBangs ==
  Matched =>
    LET found == ret[1]
        one == RefTier1(call.prefix, call.maxTier1)
        two == RefTier2(call.prefix, call.maxTier1, call.maxTier2)
        n1 == Cardinality(one)
    IN  /\ Len(found) = n1 + Cardinality(two)
        /\ \A r \in 1..n1 : found[r] = BANGS[RefPlaces(one)[r]]
        /\ \A r \in 1..Cardinality(two) : found[n1 + r] = BANGS[RefPlaces(two)[r]]
        /\ \A r, s \in 1..Len(found) : r # s => found[r].trigger # found[s].trigger
        /\ Len(found) <= call.maxTier1 + call.maxTier2
        /\ (call.maxTier1 = DefaultTier1 /\ call.maxTier2 = DefaultTier2) => Len(found) <= 7
        /\ SubSeq(found, 1, n1) = matchBangs(call.prefix, call.maxTier1, 0)

\* The prefix g with the defaults: three triggers, then Google Images by its
\* name, although Google, GitHub and GitHub Repository match by name too.
C14_Witness ==
  /\ Matched
  /\ call = [prefix |-> "G", maxTier1 |-> DefaultTier1, maxTier2 |-> DefaultTier2]
  /\ [r \in 1..Len(ret[1]) |-> Str(ret[1][r].trigger)] = <<"g", "gh", "ghr", "i">>

(***************************************************************************)
(* mergeWithGoogle (src/lib/search-engine.ts)                              *)
(***************************************************************************)

\* The loop over googleSuggestions from suggestion k on: a new text is added
\* with the score 0.9, a text already there has its first entry raised by
\* 0.15, to 1 at most.
RECURSIVE mergeScan(_, _, _, _)
mergeScan(merged, seen, suggestions, k) ==
  IF k > Len(suggestions) THEN merged
  ELSE LET key == lower(suggestions[k])
       IN  IF key \notin seen
             THEN mergeScan(Append(merged, [text |-> suggestions[k], source |-> "google",
                                            score |-> 9 * (ScoreScale \div 10)]),
                            seen \cup {key}, suggestions, k + 1)
             ELSE LET at == Min({i \in 1..Len(merged) : lower(merged[i].text) = key})
                  IN  mergeScan([merged EXCEPT ![at].score =
                                   Min2(ScoreScale, @ + 15 * (ScoreScale \div 100))],
                                seen, suggestions, k + 1)

mergeWithGoogle(local, googleSuggestions, limit) ==
  LET seen == {lower(local[i].text) : i \in 1..Len(local)}
      merged == mergeScan(local, seen, googleSuggestions, 1)
  IN  slice(stableSort(merged, scoreOrder(merged)), limit)

(***************************************************************************)
(* The suggest route (src/app/page.tsx): GET, fetchGoogleSuggest and the   *)
(* cache in front of the upstream provider.                                *)
(*                                                                         *)
(* A JSON value is a record [t, v, items]: t its type, v the text of a     *)
(* string or number, items the elements of an array.                       *)
(***************************************************************************)

CACHE_TTL_MS == 60000
\* CACHE_MAX, 500 in the code: the model holds a cache of this size.
CACHE_MAX == 1
\* AbortSignal.timeout(3000)
FETCH_TIMEOUT_MS == 3000
\* data[1].slice(0, 10)
UpstreamLimit == 10
\* predict(q, 8), mergeWithGoogle(..., 8), suggestions.slice(0, 8)
SuggestLimit == 8

JString(s) == [t |-> "string", v |-> s, items |-> <<>>]
JNumber(s) == [t |-> "number", v |-> s, items |-> <<>>]
JNull == [t |-> "null", v |-> "", items |-> <<>>]
JObject == [t |-> "object", v |-> "", items |-> <<>>]
JArray(items) == [t |-> "array", v |-> "", items |-> items]

\* `${value}` for a string, a number and null
toText(value) ==
  IF value.t = "null" THEN "null"
  ELSE IF value.t = "object" THEN "[object Object]"
  ELSE value.v

\* The characters of s from the first that is no white space on.
dropSpaces(s) ==
  LET solid == {i \in 1..Len(s) : ~IsSpace(s[i])}
  IN  IF solid = {} THEN <<>> ELSE SubSeq(s, Min(solid), Len(s))

\* String.prototype.replace(/\s+/g, ' ')
RECURSIVE collapseSpaces(_)
collapseSpaces(s) ==
  IF s = <<>> THEN <<>>
  ELSE IF IsSpace(s[1]) THEN <<" ">> \o collapseSpaces(dropSpaces(s))
  ELSE <<s[1]>> \o collapseSpaces(Tail(s))

\* norm(s)
norm(s) == Str(trim(collapseSpaces(toLowerCase(Chars(s)))))

\* String.prototype.split(/\s+/), on characters
RECURSIVE splitSpaces(_)
splitSpaces(s) ==
  LET gaps == {i \in 1..Len(s) : IsSpace(s[i])}
  IN  IF gaps = {} THEN <<s>>
      ELSE <<SubSeq(s, 1, Min(gaps) - 1)>>
             \o splitSpaces(dropSpaces(SubSeq(s, Min(gaps), Len(s))))

\* Array.prototype.join(' ')
RECURSIVE joinSpaces(_)
joinSpaces(parts) ==
  IF parts = <<>> THEN <<>>
  ELSE IF Len(parts) = 1 THEN parts[1]
  ELSE parts[1] \o <<" ">> \o joinSpaces(Tail(parts))

\* s.split(ch)[0]
firstPart(s, ch) ==
  LET hits == {i \in 1..Len(s) : s[i] = ch}
  IN  IF hits = {} THEN s ELSE SubSeq(s, 1, Min(hits) - 1)

\* getLang(request); header is Null when the request has no Accept-Language.
getLang(header) ==
  LET al == IF header = Null THEN <<>> ELSE Chars(header[1])
      primary == trim(firstPart(firstPart(al, ","), ";"))
  IN  IF primary = <<>> THEN "en" ELSE Str(primary)

\* `${query}:${lang}`
cacheKeyOf(queryText, lang) == queryText \o ":" \o lang

\* The place of key in the Map, 0 when it has none.
cachePlace(cache, key) ==
  IF \E i \in 1..Len(cache) : cache[i].key = key
    THEN CHOOSE i \in 1..Len(cache) : cache[i].key = key
    ELSE 0

\* Map.prototype.delete(key)
cacheDelete(cache, key) ==
  SelectSeq(cache, LAMBDA e : e.key # key)

\* cacheGet(key) that returns an entry whatever its expiry
cacheGetStale(cache, key, time) ==
  LET at == cachePlace(cache, key)
  IN  IF at = 0 THEN Null ELSE Some(cache[at].results)

\* cacheGet(key): what it returns, Null for null, and the Map it leaves.
cacheGet(cache, key, time) ==
  LET at == cachePlace(cache, key)
  IN  IF at = 0 THEN Null
      ELSE IF time > cache[at].expiresAt THEN Null
      ELSE Some(cache[at].results)

cacheAfterGet(cache, key, time) ==
  LET at == cachePlace(cache, key)
  IN  IF at # 0 /\ time > cache[at].expiresAt THEN cacheDelete(cache, key) ELSE cache

\* cacheSet(key, results) that evicts nothing
cacheSetUnbounded(cache, key, list, time) ==
  LET entry == [key |-> key, results |-> list, expiresAt |-> time + CACHE_TTL_MS]
  IN  IF cachePlace(cache, key) # 0
        THEN [cache EXCEPT ![cachePlace(cache, key)] = entry]
        ELSE Append(cache, entry)

\* cacheSet(key, results) that evicts only above CACHE_MAX entries
cacheSetEvictsLate(cache, key, list, time) ==
  LET room == IF Len(cache) > CACHE_MAX THEN Tail(cache) ELSE cache
      entry == [key |-> key, results |-> list, expiresAt |-> time + CACHE_TTL_MS]
  IN  IF cachePlace(room, key) # 0
        THEN [room EXCEPT ![cachePlace(room, key)] = entry]
        ELSE Append(room, entry)

\* cacheSet(key, results): Map.set keeps the place of a key it already holds
\* and puts a new key last.
cacheSet(cache, key, list, time) ==
  LET room == IF Len(cache) >= CACHE_MAX THEN Tail(cache) ELSE cache
      entry == [key |-> key, results |-> list, expiresAt |-> time + CACHE_TTL_MS]
  IN  IF cachePlace(room, key) # 0
        THEN [room EXCEPT ![cachePlace(room, key)] = entry]
        ELSE Append(room, entry)

\* What the upstream may answer: no answer at all (a network error), a status
\* that is not 2xx, a body that is no JSON, or a JSON body.
UpstreamError == [kind |-> "error", data |-> JNull]
UpstreamNotOk == [kind |-> "status", data |-> JNull]
UpstreamNotJson == [kind |-> "text", data |-> JNull]
UpstreamJson(data) == [kind |-> "json", data |-> data]

\* The part of fetchGoogleSuggest after the fetch: answer.done tells whether
\* it reaches cacheSet, answer.results is what it returns.
\* data[1] of null throws, into the catch; of an object it is undefined.
fetched(answer) ==
  IF answer.kind # "json" \/ answer.data.t = "null"
    THEN [done |-> FALSE, results |-> <<>>]
  ELSE IF answer.data.t = "array" /\ Len(answer.data.items) >= 2
            /\ answer.data.items[2].t = "array"
    THEN [done |-> TRUE, results |-> slice(answer.data.items[2].items, UpstreamLimit)]
  ELSE [done |-> TRUE, results |-> <<>>]

\* BANGS.flatMap(b => [b.name.toLowerCase(), b.trigger])
bangCorpus ==
  Flatten([i \in 1..Len(BANGS) |->
             <<Str(toLowerCase(BANGS[i].name)), Str(BANGS[i].trigger)>>])

\* COMMON_QUERIES: of its 105 words, those that begin with gi.
COMMON_QUERIES == <<"github", "git", "github actions", "github copilot">>

\* The sink of GET, addSuggestion, for the entries from entry k on.
RECURSIVE addSuggestions(_, _, _, _)
addSuggestions(entries, k, seen, suggestions) ==
  IF k > Len(entries) THEN suggestions
  ELSE LET key == norm(entries[k])
       IN  IF key # "" /\ key \notin seen
             THEN addSuggestions(entries, k + 1, seen \cup {key},
                                 Append(suggestions, entries[k]))
             ELSE addSuggestions(entries, k + 1, seen, suggestions)

\* q.slice(1).split(/\s+/), bangPrefix and textAfterBang of a bang query
bangParts(q) == splitSpaces(Tail(Chars(q)))
bangPrefixOf(q) == Str(toLowerCase(bangParts(q)[1]))
textAfterBangOf(q) == Str(trim(joinSpaces(Tail(bangParts(q)))))

\* The em dash of the code's template, written as a hyphen.
EmDash == "-"

\* The entry of a matched bang.
bangEntry(b, textAfterBang) ==
  IF textAfterBang # ""
    THEN "!" \o Str(b.trigger) \o " " \o textAfterBang
    ELSE "!" \o Str(b.trigger) \o " " \o EmDash \o " " \o Str(b.name)

\* The responses: of an empty query, of any other, and what the framework
\* answers when GET throws.
EmptyResponse ==
  [status |-> 200, body |-> <<"", <<>>>>, cacheControl |-> "no-store"]
OkResponse(q, suggestions) ==
  [status |-> 200, body |-> <<q, slice(suggestions, SuggestLimit)>>,
   cacheControl |-> "public, max-age=60, stale-while-revalidate=30"]
ErrorResponse == [status |-> 500, body |-> <<>>, cacheControl |-> ""]

\* GET from the return of fetchGoogleSuggest on, for a bang query: google is
\* what it returned, the empty list when it was not called.
bangResponse(q, google) ==
  LET textAfterBang == textAfterBangOf(q)
      bangMatches == matchBangs(bangPrefixOf(q), DefaultTier1, DefaultTier2)
      own == [i \in 1..Len(bangMatches) |-> bangEntry(bangMatches[i], textAfterBang)]
      theirs == [i \in 1..Len(google) |->
                   "!" \o Str(bangMatches[1].trigger) \o " " \o toText(google[i])]
  IN  OkResponse(q, addSuggestions(own \o theirs, 1, {}, <<>>))

\* GET for a plain query with the local predictions emitted first
plainResponseLocalFirst(q, google, local) ==
  LET merged == mergeWithGoogle(local, <<>>, SuggestLimit)
      theirs == [i \in 1..Len(google) |-> google[i].v]
      own == [i \in 1..Len(merged) |-> merged[i].text]
  IN  IF \E i \in 1..Len(google) : google[i].t # "string"
        THEN ErrorResponse
        ELSE OkResponse(q, addSuggestions(own \o theirs, 1, {}, <<>>))

\* The same for a plain query: norm(gs) throws on the first suggestion that
\* is no string.
plainResponse(q, google, local) ==
  LET merged == mergeWithGoogle(local, <<>>, SuggestLimit)
      theirs == [i \in 1..Len(google) |-> google[i].v]
      own == [i \in 1..Len(merged) |-> merged[i].text]
  IN  IF \E i \in 1..Len(google) : google[i].t # "string"
        THEN ErrorResponse
        ELSE OkResponse(q, addSuggestions(theirs \o own, 1, {}, <<>>))

isBangQuery(q) == startsWith(Chars(q), <<"!">>)

responseOf(q, google, local) ==
  IF isBangQuery(q) THEN bangResponse(q, google) ELSE plainResponse(q, google, local)

\* The query passed to fetchGoogleSuggest with the bang token left in
askedWithBang(q) ==
  IF ~isBangQuery(q) THEN Some(q)
  ELSE IF textAfterBangOf(q) # ""
            /\ matchBangs(bangPrefixOf(q), DefaultTier1, DefaultTier2) # <<>>
    THEN Some(q)
  ELSE Null

\* The query GET passes to fetchGoogleSuggest, Null when it does not call it.
askedOf(q) ==
  IF ~isBangQuery(q) THEN Some(q)
  ELSE IF textAfterBangOf(q) # ""
            /\ matchBangs(bangPrefixOf(q), DefaultTier1, DefaultTier2) # <<>>
    THEN Some(textAfterBangOf(q))
  ELSE Null

\* The fetch ended by its signal, as an answer.
UpstreamTimeout == [kind |-> "timeout", data |-> JNull]

\* A request that GET has returned for. asked is the query it passed to
\* fetchGoogleSuggest, answer what the upstream answered, google what
\* fetchGoogleSuggest returned, each Null when there was none; local is the
\* list predict returned.
answered(q, lang, asked, answer, local, google, response) ==
  [q |-> q, lang |-> lang, pc |-> "done", asked |-> asked, answer |-> answer,
   deadline |-> 0, local |-> local, google |-> google, response |-> Some(response)]

\* What initSearchEngine(bangCorpus) leaves in _corpus, _trie and _ngramIndex.
routeCorpus == COMMON_QUERIES \o bangCorpus
routeTrie == insertAll(emptyTrie, routeCorpus, 1)
routeIndex == buildNGramIndex(emptyIndex, routeCorpus, 1)

\* ensureEngine() that never sets its flag
ensureEngineUnflagged ==
  /\ corpus' = Some(routeCorpus)
  /\ trie' = Some(routeTrie)
  /\ ngramIndex' = Some(routeIndex)
  /\ engineReady' = engineReady

\* ensureEngine()
ensureEngine ==
  IF engineReady
    THEN UNCHANGED <<corpus, trie, ngramIndex, engineReady>>
    ELSE /\ corpus' = Some(routeCorpus)
         /\ trie' = Some(routeTrie)
         /\ ngramIndex' = Some(routeIndex)
         /\ engineReady' = TRUE

\* predict(q, limit) as GET calls it, after ensureEngine(): it reads what
\* initSearchEngine stored, by this call of ensureEngine or an earlier one.
predictReady(q, limit) ==
  predictFrom(q, limit,
              IF engineReady THEN corpus ELSE Some(routeCorpus),
              IF engineReady THEN trie ELSE Some(routeTrie),
              IF engineReady THEN ngramIndex ELSE Some(routeIndex))

\* The request GET leaves at its first await, or at its return when it
\* awaits nothing that is pending: asked is the query for fetchGoogleSuggest
\* (Null without a call), cached what cacheGet returned for it, local the
\* list of predict.
started(q, lang, asked, cached, local, time) ==
  IF asked = Null
    THEN answered(q, lang, Null, Null, local, Null, responseOf(q, <<>>, local))
  ELSE IF cached # Null
    THEN answered(q, lang, asked, Null, local, cached, responseOf(q, cached[1], local))
  ELSE [q |-> q, lang |-> lang, pc |-> "fetching", asked |-> asked, answer |-> Null,
        deadline |-> time + FETCH_TIMEOUT_MS, local |-> local, google |-> Null,
        response |-> Null]

\* GET(request) up to its first await or its return: param is the q of the
\* URL (Null when it has none), header the Accept-Language header.
Get(param, header) ==
  LET q == IF param = Null THEN "" ELSE Str(trim(Chars(param[1])))
      lang == getLang(header)
      asked == askedOf(q)
      key == cacheKeyOf(asked[1], lang)
  IN  /\ UNCHANGED <<query, url, pquery, plimit, results, strA, strB, strC, dist,
                     callVars, now,
                 barVars>>
      /\ IF q = ""
           THEN /\ reqs' = Append(reqs, answered("", "", Null, Null, <<>>, Null,
                                                 EmptyResponse))
                /\ UNCHANGED <<corpus, trie, ngramIndex, engineReady, suggestCache>>
           ELSE /\ ensureEngine
                /\ suggestCache' = IF asked = Null THEN suggestCache
                                   ELSE cacheAfterGet(suggestCache, key, now)
                /\ reqs' = Append(reqs,
                     started(q, lang, asked,
                             IF asked = Null THEN Null
                             ELSE cacheGet(suggestCache, key, now),
                             IF isBangQuery(q) THEN <<>>
                             ELSE predictReady(q, SuggestLimit),
                             now))

\* fetchGoogleSuggest and GET from the await of the fetch on, when the
\* upstream answers request r in time.
Upstream(r, answer) ==
  /\ r \in 1..Len(reqs)
  /\ reqs[r].pc = "fetching"
  /\ now < reqs[r].deadline
  /\ LET got == fetched(answer)
     IN  /\ suggestCache' =
               IF got.done
                 THEN cacheSet(suggestCache, cacheKeyOf(reqs[r].asked[1], reqs[r].lang),
                               got.results, now)
                 ELSE suggestCache
         /\ reqs' = [reqs EXCEPT ![r] =
               answered(@.q, @.lang, @.asked, Some(answer), @.local, Some(got.results),
                        responseOf(@.q, got.results, @.local))]
  /\ UNCHANGED <<query, url, corpus, trie, ngramIndex, pquery, plimit, results,
                 strA, strB, strC, dist, callVars, engineReady, now,
                 barVars>>

\* The same when the signal of the fetch aborts it: the catch returns [].
Timeout(r) ==
  /\ r \in 1..Len(reqs)
  /\ reqs[r].pc = "fetching"
  /\ now >= reqs[r].deadline
  /\ reqs' = [reqs EXCEPT ![r] =
        answered(@.q, @.lang, @.asked, Some(UpstreamTimeout), @.local, Some(<<>>),
                 responseOf(@.q, <<>>, @.local))]
  /\ UNCHANGED <<query, url, corpus, trie, ngramIndex, pquery, plimit, results,
                 strA, strB, strC, dist, callVars, suggestCache, engineReady, now,
                 barVars>>

\* d milliseconds pass; no fetch is left pending past its deadline.
Tick(d) ==
  /\ \A r \in 1..Len(reqs) : reqs[r].pc = "fetching" => now + d <= reqs[r].deadline
  /\ now' = now + d
  /\ UNCHANGED <<query, url, corpus, trie, ngramIndex, pquery, plimit, results,
                 strA, strB, strC, dist, callVars, suggestCache, engineReady, reqs,
                 barVars>>

InitServer == EngineIdle /\ ResolverIdle /\ DistanceIdle /\ CallIdle /\ ServerIdle /\ BarIdle

(***************************************************************************)
(* The route under requests and upstream answers of many shapes.           *)
(***************************************************************************)

MaxRequests == 2

\* [query, [suggestions]], the body the upstream sends for a query
Suggested(list) ==
  UpstreamJson(JArray(<<JString("q"),
                        JArray([i \in 1..Len(list) |-> JString(list[i])])>>))

\* The requests: the q of the URL and the Accept-Language header. No q and a
\* blank one; a plain query in two languages; a bang alone, one with a text,
\* one that matches no bang, and a text after a lone "!".
SuggestInputs ==
  { <<Null, Null>>, <<Some("  "), Null>>,
    <<Some("gi"), Null>>, <<Some(" gi"), Some("fr-FR,fr;q=0.9")>>,
    <<Some("!g"), Null>>, <<Some("!G  x"), Some(" ;q=1")>>,
    <<Some("!zz x"), Null>>, <<Some("! x"), Null>> }

\* The answers of the upstream: the failures, bodies of other shapes, lists
\* of strings (with repeats of each other and of local words up to case and
\* spaces, a blank one, more than ten), and lists that hold other values.
MixedSuggestions == Suggested(<<"x y", "GIT ", " ", "X  y", "gist">>)
ManySuggestions ==
  Suggested(<<"s1", "s2", "s3", "s4", "s5", "s6", "s7", "s8", "s9", "s10", "s11">>)
NotAllStrings ==
  UpstreamJson(JArray(<<JString("q"), JArray(<<JString("x"), JNumber("1")>>)>>))

SuggestAnswers ==
  { UpstreamError, UpstreamNotOk, UpstreamNotJson,
    UpstreamJson(JNull), UpstreamJson(JObject),
    UpstreamJson(JArray(<<JString("q")>>)),
    UpstreamJson(JArray(<<JString("q"), JString("x")>>)),
    MixedSuggestions, ManySuggestions, NotAllStrings,
    UpstreamJson(JArray(<<JNumber("1"), JArray(<<JString("x")>>)>>)) }

\* A fetch is pending.
Pending == \E r \in 1..Len(reqs) : reqs[r].pc = "fetching"

\* The time to the next deadline passes (it matters to a pending fetch only).
Pass == Pending /\ Tick(FETCH_TIMEOUT_MS)

NextSuggest ==
  \/ Len(reqs) < MaxRequests /\ \E input \in SuggestInputs : Get(input[1], input[2])
  \/ \E r \in 1..MaxRequests, answer \in SuggestAnswers : Upstream(r, answer)
  \/ \E r \in 1..MaxRequests : Timeout(r)
  \/ Pass

SpecSuggest == InitServer /\ [][NextSuggest]_vars

\* Timeout(r) is enabled: the fetch of request r is pending at its deadline.
TimeoutDue(r) ==
  r \in 1..Len(reqs) /\ reqs[r].pc = "fetching" /\ now >= reqs[r].deadline

\* The timers of the runtime fire: while a fetch is pending time passes, and
\* a fetch that has reached its deadline is aborted. Nothing makes the
\* upstream answer. The second condition is WF_vars(Timeout(r)), written by
\* its meaning: Timeout(r) is enabled exactly when TimeoutDue(r), and a step
\* of it ends TimeoutDue(r).
SpecSuggestFair ==
  /\ SpecSuggest
  /\ WF_vars(Pass)
  /\ \A r \in 1..MaxRequests : []<>(~TimeoutDue(r))

(***************************************************************************)
(* The route under fewer inputs, for what holds of every response.         *)
(***************************************************************************)

MaxOrderRequests == 2

OrderInputs ==
  { <<Some("gi"), Null>>, <<Some("!G  x"), Some(" ;q=1")>>, <<Some("! x"), Null>>,
    <<Some("!g"), Null>>, <<Some("!zz x"), Null>> }

OrderAnswers == { UpstreamNotOk, MixedSuggestions, ManySuggestions, NotAllStrings }

NextOrder ==
  \/ Len(reqs) < MaxOrderRequests /\ \E input \in OrderInputs : Get(input[1], input[2])
  \/ \E r \in 1..MaxOrderRequests, answer \in OrderAnswers : Upstream(r, answer)
  \/ \E r \in 1..MaxOrderRequests : Timeout(r)
  \/ Pass

SpecOrder == InitServer /\ [][NextOrder]_vars

(***************************************************************************)
(* What the route's contract says of a response.                           *)
(***************************************************************************)

\* The requests GET has returned for.
Done == {r \in 1..Len(reqs) : reqs[r].pc = "done"}

\* The requests an upstream request was sent for.
Sent == {r \in 1..Len(reqs) : reqs[r].pc = "fetching" \/ reqs[r].answer # Null}

\* A list without an entry of an empty key or two entries of one key.
RefKeysApart(list) ==
  LET keys == {norm(list[i]) : i \in 1..Len(list)}
  IN  "" \notin keys /\ Cardinality(keys) = Len(list)

RefWellFormed(r) ==
  LET response == reqs[r].response[1]
  IN  /\ response.status = 200
      /\ Len(response.body) = 2
      /\ response.body[1] = reqs[r].q
      /\ Len(response.body[2]) <= 8
      /\ RefKeysApart(response.body[2])
      /\ reqs[r].q = "" =>
           /\ response.body = <<"", <<>>>>
           /\ response.cacheControl = "no-store"
           /\ r \notin Sent

\* A JSON value of the shape [string, string[]].
RefSuggestShape(data) ==
  /\ data.t = "array"
  /\ Len(data.items) >= 2
  /\ data.items[1].t = "string"
  /\ data.items[2].t = "array"
  /\ \A i \in 1..Len(data.items[2].items) : data.items[2].items[i].t = "string"

RefStrings(list) == \A i \in 1..Len(list) : list[i].t = "string"

\* C15: whatever the upstream returns, every response is [echoed query,
\* suggestions] with at most 8 suggestions, no two of one norm key and none
\* of an empty key; an empty or blank q is answered ["", []] with
\* Cache-Control: no-store and without an upstream request.
C15_SuggestResponse == \A r \in Done : RefWellFormed(r)

\* The same for the requests whose list of upstream suggestions, fetched or
\* cached, holds strings only.
SuggestResponseOfStrings ==
  \A r \in Done :
    (reqs[r].google = Null \/ RefStrings(reqs[r].google[1])) => RefWellFormed(r)

\* C18: fetchGoogleSuggest returns the empty list on every failure: deadline,
\* status, connection, a body that is no JSON or not of the shape
\* [string, string[]]; on success at most 10 entries, all strings, in the
\* order of index 1 of the body. (It never throws: it returns a list.)
C18_FetchResults ==
  \A r \in Done :
    /\ reqs[r].google # Null =>
         /\ Len(reqs[r].google[1]) <= 10
         /\ RefStrings(reqs[r].google[1])
    /\ reqs[r].answer # Null =>
         LET answer == reqs[r].answer[1]
         IN  IF answer.kind = "json" /\ RefSuggestShape(answer.data)
               THEN reqs[r].google[1] =
                      SubSeq(answer.data.items[2].items, 1,
                             Min2(10, Len(answer.data.items[2].items)))
               ELSE reqs[r].google[1] = <<>>

\* The same for the answers that are a failure, or a JSON body whose index 1
\* is missing, is no array or is an array of strings.
FetchResultsOfStrings ==
  \A r \in Done :
    (reqs[r].answer # Null /\ RefStrings(reqs[r].google[1])) =>
         LET answer == reqs[r].answer[1]
         IN  /\ Len(reqs[r].google[1]) <= 10
             /\ IF answer.kind = "json" /\ answer.data.t = "array"
                     /\ Len(answer.data.items) >= 2
                     /\ answer.data.items[2].t = "array"
                  THEN reqs[r].google[1] =
                         SubSeq(answer.data.items[2].items, 1,
                                Min2(10, Len(answer.data.items[2].items)))
                  ELSE reqs[r].google[1] = <<>>

\* A bang query split: the prefix is what follows the "!" up to the first
\* white space, in lowercase; the text is the rest, its runs of white space
\* made one space each, trimmed.
RefGap(q) ==
  LET rest == Tail(Chars(q))
  IN  Min({i \in 1..Len(rest) : IsSpace(rest[i])} \cup {Len(rest) + 1})
RefBangPrefix(q) == Str(toLowerCase(SubSeq(Tail(Chars(q)), 1, RefGap(q) - 1)))
RefTextAfterBang(q) ==
  Str(trim(collapseSpaces(SubSeq(Tail(Chars(q)), RefGap(q), Len(q) - 1))))

\* The places in the registry of the bangs matched, by tier.
RefMatched1(q) == RefPlaces(RefTier1(RefBangPrefix(q), DefaultTier1))
RefMatched2(q) == RefPlaces(RefTier2(RefBangPrefix(q), DefaultTier1, DefaultTier2))

\* The entry of the bang at place k of the registry, for the text after the
\* bang.
RefBangEntry(text, k) ==
  IF text # ""
    THEN "!" \o Str(BANGS[k].trigger) \o " " \o text
    ELSE "!" \o Str(BANGS[k].trigger) \o " " \o EmDash \o " " \o Str(BANGS[k].name)

RefEntries(q, places) ==
  LET text == RefTextAfterBang(q)
  IN  [i \in 1..Len(places) |-> RefBangEntry(text, places[i])]

\* The entries of the upstream suggestions of a bang query whose best match
\* is at place best of the registry.
RefBangSuggested(best, google) ==
  [i \in 1..Len(google) |-> "!" \o Str(BANGS[best].trigger) \o " " \o toText(google[i])]

\* What the sink lets through: of the entries of one key the first, none of
\* an empty key, eight at most.
RefSink(list) ==
  LET keys == SubSeq([i \in 1..Len(list) |-> norm(list[i])], 1, Len(list))
      kept == {i \in 1..Len(list) : keys[i] # "" /\ \A j \in 1..(i - 1) : keys[j] # keys[i]}
      places == RefPlaces(kept)
  IN  [r \in 1..Min2(8, Cardinality(kept)) |-> list[places[r]]]

\* The list a request got from fetchGoogleSuggest, empty when it did not
\* call it.
RefGoogle(r) == IF reqs[r].google = Null THEN <<>> ELSE reqs[r].google[1]

\* The first place of entry in list.
RefRank(list, entry) == Min({i \in 1..Len(list) : list[i] = entry})

\* The suggestions are entries of list, in the order of their first places.
RefInOrderOf(suggestions, list) ==
  /\ \A i \in 1..Len(suggestions) : InSeq(list, suggestions[i])
  /\ \A i \in 1..(Len(suggestions) - 1) :
       RefRank(list, suggestions[i]) < RefRank(list, suggestions[i + 1])

RefTexts(google) == [i \in 1..Len(google) |-> google[i].v]
RefLocalTexts(local) == [i \in 1..Len(local) |-> local[i].text]

Answered200 == {r \in Done : reqs[r].response[1].status = 200}

\* C16: in a response to a bang query every entry of a matched bang comes
\* before every entry derived from the upstream, the trigger matches before
\* the name matches; in a response to a plain query every upstream entry
\* comes before every entry that is local only; the upstream entries keep
\* the order they were received in, the local ones the descending-score
\* order of predict.
C16_EmissionOrder ==
  \A r \in Answered200 :
    LET q == reqs[r].q
        suggestions == reqs[r].response[1].body[2]
    IN  IF q = "" THEN suggestions = <<>>
        ELSE IF isBangQuery(q)
          THEN LET tier1 == RefMatched1(q)
                   tier2 == RefMatched2(q)
               IN  RefInOrderOf(suggestions,
                                RefEntries(q, tier1) \o RefEntries(q, tier2)
                                  \o (IF RefGoogle(r) = <<>> THEN <<>>
                                      ELSE RefBangSuggested((tier1 \o tier2)[1],
                                                            RefGoogle(r))))
          ELSE /\ RefInOrderOf(suggestions,
                               RefTexts(RefGoogle(r)) \o RefLocalTexts(reqs[r].local))
               /\ \A i \in 1..(Len(reqs[r].local) - 1) :
                    reqs[r].local[i].score >= reqs[r].local[i + 1].score

\* A bang query answered with trigger matches, a name match and upstream
\* entries, and a plain query answered with upstream and local entries.
C16_Witness ==
  \E r, p \in Answered200 :
    /\ reqs[r].q = "!G  x"
    /\ Len(reqs[r].response[1].body[2]) = 8
    /\ SubSeq(reqs[r].response[1].body[2], 3, 5) = <<"!ghr x", "!i x", "!g x y">>
    /\ reqs[p].q = "gi"
    /\ Len(reqs[p].response[1].body[2]) = 7
    /\ SubSeq(reqs[p].response[1].body[2], 2, 4) = <<"GIT ", "gist", "github">>

\* C17: for a bang query, each matched bang emits "!<trigger> <text>" when
\* the text after the bang is not empty, else "!<trigger> - <name>"; the
\* upstream provider is called if and only if that text is not empty and a
\* bang matched, with the text alone; each upstream suggestion s is emitted
\* as "!<best trigger> <s>"; without a match the list is empty. (Emitted:
\* into the sink, which drops repeats and cuts at 8.)
C17_BangSuggestions ==
  \A r \in 1..Len(reqs) :
    (reqs[r].q # "" /\ isBangQuery(reqs[r].q)) =>
      LET q == reqs[r].q
          matched == RefMatched1(q) \o RefMatched2(q)
          own == RefEntries(q, matched)
      IN  /\ reqs[r].asked # Null <=> (RefTextAfterBang(q) # "" /\ own # <<>>)
          /\ reqs[r].asked # Null => reqs[r].asked[1] = RefTextAfterBang(q)
          /\ r \in Sent => reqs[r].asked # Null
          /\ r \in Done =>
               LET suggestions == reqs[r].response[1].body[2]
               IN  /\ reqs[r].response[1].status = 200
                   /\ SubSeq(suggestions, 1, Len(own)) = own
                   /\ suggestions =
                        RefSink(own \o (IF RefGoogle(r) = <<>> THEN <<>>
                                        ELSE RefBangSuggested(matched[1], RefGoogle(r))))
                   /\ own = <<>> => suggestions = <<>>

\* Seven bangs matched by the empty prefix, each with the text, and the
\* first of eleven upstream suggestions after them.
C17_Witness ==
  \E r \in Done :
    /\ reqs[r].q = "! x"
    /\ reqs[r].asked = Some("x")
    /\ Len(reqs[r].google[1]) = 10
    /\ reqs[r].response[1].body[2] =
         <<"!g x", "!b x", "!d x", "!y x", "!x x", "!r x", "!w x", "!g s1">>

\* The suggestions of request r without a contribution of the upstream: the
\* entries of the matched bangs, or the texts of the local predictions.
RefLocalOnly(r) ==
  IF isBangQuery(reqs[r].q)
    THEN RefSink(RefEntries(reqs[r].q, RefMatched1(reqs[r].q) \o RefMatched2(reqs[r].q)))
    ELSE RefSink(RefLocalTexts(reqs[r].local))

\* Request r got a well-formed 200 response, which holds the local results
\* alone when fetchGoogleSuggest gave nothing.
RefResponded(r) ==
  /\ r \in Done
  /\ RefWellFormed(r)
  /\ (reqs[r].q # "" /\ RefGoogle(r) = <<>>) =>
       reqs[r].response[1].body[2] = RefLocalOnly(r)

\* C19: every request eventually gets a well-formed 200 response, whatever
\* the upstream does: when it hangs the deadline fires and the response
\* holds the local predictions or bang matches only; an error, a status
\* that is not 2xx or a malformed body neither makes the handler fail nor
\* drops the local results.
C19_EventualResponse ==
  \A r \in 1..MaxRequests : (Len(reqs) >= r) ~> RefResponded(r)

\* Every request is eventually answered, with a response of some status.
EveryRequestAnswered ==
  \A r \in 1..MaxRequests : (Len(reqs) >= r) ~> (r \in Done)

\* An answered request whose upstream list holds strings only, or which got
\* none, has such a response.
RespondedOfStrings ==
  \A r \in Done :
    (reqs[r].google = Null \/ RefStrings(reqs[r].google[1])) => RefResponded(r)

\* The upstream gives nothing on a failure or a deadline.
NothingOnFailure ==
  \A r \in Done :
    (reqs[r].answer # Null /\ reqs[r].answer[1].kind # "json") => reqs[r].google = Some(<<>>)

(***************************************************************************)
(* The cache under concurrent requests: more keys than the cache holds,    *)
(* in two languages, and a key asked for by several requests at once.      *)
(***************************************************************************)

MaxCacheRequests == 2

CacheInputs ==
  { <<Some("!g x"), Null>>, <<Some("!g y"), Null>>, <<Some("!w z"), Null>>,
    <<Some("!g x"), Some("fr")>> }

CacheAnswers == { UpstreamNotOk, Suggested(<<>>), Suggested(<<"s">>), Suggested(<<"t">>) }

NextCache ==
  \/ Len(reqs) < MaxCacheRequests /\ \E input \in CacheInputs : Get(input[1], input[2])
  \/ \E r \in 1..MaxCacheRequests, answer \in CacheAnswers : Upstream(r, answer)
  \/ \E r \in 1..MaxCacheRequests : Timeout(r)
  \/ Pass

SpecCache == InitServer /\ [][NextCache]_vars

\* The key request r reads and writes the cache under.
RefKeyOf(r) == reqs[r].asked[1] \o ":" \o reqs[r].lang

\* The requests whose fetch ended in a cacheSet.
RefWrote == {r \in Done : reqs[r].answer # Null /\ fetched(reqs[r].answer[1]).done}

\* C20: under every interleaving of the fetches of concurrent requests
\* (distinct keys, repeated keys, a key written by two requests that both
\* missed) the cache never holds more than CACHE_MAX entries (500 in the
\* program), and right after a cacheSet the key written is present with
\* its new results.
C20_CacheBound ==
  [][ /\ Len(suggestCache') <= CACHE_MAX
      /\ \A r \in 1..Len(reqs) :
           (reqs[r].pc = "fetching" /\ r \in RefWrote') =>
             \E i \in 1..Len(suggestCache') :
               /\ suggestCache'[i].key = RefKeyOf(r)
               /\ suggestCache'[i].results = reqs'[r].google[1]
               /\ suggestCache'[i].expiresAt = now + CACHE_TTL_MS
               /\ \A j \in 1..Len(suggestCache') :
                    suggestCache'[j].key = RefKeyOf(r) => j = i ]_vars

\* A full cache after more keys were written than it holds: one of them was
\* evicted.
C20_Witness ==
  /\ Len(suggestCache) = CACHE_MAX
  /\ \E r \in RefWrote : \A i \in 1..Len(suggestCache) : suggestCache[i].key # RefKeyOf(r)
  /\ Cardinality({RefKeyOf(r) : r \in RefWrote}) > CACHE_MAX

\* Two requests missed on one key and both wrote it.
C20_WroteTwice ==
  \E r, p \in RefWrote :
    r # p /\ RefKeyOf(r) = RefKeyOf(p) /\ reqs[r].google # reqs[p].google

(***************************************************************************)
(* The cache over time: entries read at their expiry and after it.         *)
(***************************************************************************)

MaxTtlRequests == 3
\* By how many milliseconds a read comes after an expiry.
MaxLate == 1

TtlInputs == { <<Some("!g x"), Null>>, <<Some("!w x"), Some("fr")>> }

TtlAnswers == { Suggested(<<>>), Suggested(<<"s">>) }

\* Time passes while no fetch is pending, up to the expiry of an entry or
\* from an expiry on (it matters to the expiry of the entries only).
WaitExpiry ==
  /\ ~Pending
  /\ \E i \in 1..Len(suggestCache) :
       suggestCache[i].expiresAt > now /\ Tick(suggestCache[i].expiresAt - now)

WaitLate ==
  /\ ~Pending
  /\ \E i \in 1..Len(suggestCache) : suggestCache[i].expiresAt = now
  /\ Tick(MaxLate)

NextTtl ==
  \/ Len(reqs) < MaxTtlRequests /\ \E input \in TtlInputs : Get(input[1], input[2])
  \/ \E r \in 1..MaxTtlRequests, answer \in TtlAnswers : Upstream(r, answer)
  \/ \E r \in 1..MaxTtlRequests : Timeout(r)
  \/ Pass
  \/ WaitExpiry
  \/ WaitLate

SpecTtl == InitServer /\ [][NextTtl]_vars

\* The places of the cache that hold key.
RefHeld(cache, key) == {i \in 1..Len(cache) : cache[i].key = key}

\* The entries of a cache, as a set.
RefEntrySet(cache) == {cache[i] : i \in 1..Len(cache)}

\* C21: the cache is read before the network, under the key <query>:<lang>.
\* A fetch for a key whose entry has not expired (now <= expiresAt =
\* insertion time + 60 s) returns the stored list, empty or not, without an
\* upstream request; an entry past its expiry is not returned, the read that
\* finds it removes it and goes to the network; entries are written only by
\* a completed upstream fetch.
C21_CacheRead ==
  [][ /\ (Len(reqs') = Len(reqs) + 1 /\ reqs'[Len(reqs')].asked # Null) =>
           LET r == Len(reqs')
               key == reqs'[r].asked[1] \o ":" \o reqs'[r].lang
               held == RefHeld(suggestCache, key)
           IN  IF held = {}
                 THEN reqs'[r].pc = "fetching" /\ suggestCache' = suggestCache
               ELSE LET entry == suggestCache[CHOOSE i \in held : TRUE]
                    IN  IF now <= entry.expiresAt
                          THEN /\ reqs'[r].pc = "done"
                               /\ reqs'[r].answer = Null
                               /\ reqs'[r].google = Some(entry.results)
                               /\ suggestCache' = suggestCache
                          ELSE /\ reqs'[r].pc = "fetching"
                               /\ RefHeld(suggestCache', key) = {}
      /\ \A entry \in RefEntrySet(suggestCache') \ RefEntrySet(suggestCache) :
           \E r \in 1..Len(reqs) :
             /\ reqs[r].pc = "fetching" /\ reqs'[r].pc = "done"
             /\ reqs'[r].answer # Null /\ reqs'[r].answer[1].kind = "json"
             /\ entry = [key |-> reqs[r].asked[1] \o ":" \o reqs[r].lang,
                         results |-> reqs'[r].google[1],
                         expiresAt |-> now + CACHE_TTL_MS] ]_vars

\* An empty list stored, returned from the cache at its expiry to a second
\* request, and a third request past the expiry that found the entry,
\* removed it and went to the network.
C21_Witness ==
  /\ Len(reqs) = 3
  /\ now = CACHE_TTL_MS + 1
  /\ reqs[1].google = Some(<<>>) /\ reqs[1].answer # Null
  /\ reqs[2].pc = "done" /\ reqs[2].answer = Null /\ reqs[2].google = Some(<<>>)
  /\ reqs[3].pc = "fetching"
  /\ RefKeyOf(1) = "x:en" /\ RefKeyOf(2) = "x:en" /\ RefKeyOf(3) = "x:en"
  /\ suggestCache = <<>>

\* The keys of a cache in the order of the Map, which is the order of their
\* insertion.
RefKeys(cache) == [i \in 1..Len(cache) |-> cache[i].key]

\* The sequence s without its entries equal to x.
RefWithout(s, x) == SelectSeq(s, LAMBDA y : y # x)

MaxEngineRequests == 3

EngineInputs == { <<Null, Null>>, <<Some("gi"), Null>>, <<Some("!g"), Null>> }

EngineAnswers == { UpstreamNotOk, MixedSuggestions }

NextEngine ==
  \/ Len(reqs) < MaxEngineRequests /\ \E input \in EngineInputs : Get(input[1], input[2])
  \/ \E r \in 1..MaxEngineRequests, answer \in EngineAnswers : Upstream(r, answer)
  \/ \E r \in 1..MaxEngineRequests : Timeout(r)
  \/ Pass

SpecEngine == InitServer /\ [][NextEngine]_vars

\* The corpus, the trie and the index hold the built-in queries and the
\* names and triggers of the bangs.
RefEngineBuilt(words, t, index) ==
  /\ words = Some(COMMON_QUERIES \o bangCorpus)
  /\ t = Some(insertAll(emptyTrie, words[1], 1))
  /\ index = Some(buildNGramIndex(emptyIndex, words[1], 1))

\* C23: under every interleaving of concurrent requests the engine (corpus,
\* trie, n-gram index) is initialised exactly once, by the first request
\* that is not empty and before any call of predict by any request; a
\* further ensureEngine changes nothing, and once initialised the corpus,
\* the trie and the index are not modified by any request.
C23_EngineOnce ==
  [][ /\ engineReady => UNCHANGED <<corpus, trie, ngramIndex, engineReady>>
      /\ ~engineReady =>
           /\ corpus = Null /\ trie = Null /\ ngramIndex = Null
           /\ \A r \in 1..Len(reqs) : reqs[r].q = ""
      /\ (~engineReady /\ engineReady') =>
           /\ Len(reqs') = Len(reqs) + 1
           /\ reqs'[Len(reqs')].q # ""
           /\ RefEngineBuilt(corpus', trie', ngramIndex')
      /\ (Len(reqs') = Len(reqs) + 1 /\ reqs'[Len(reqs')].q # "") =>
           /\ engineReady'
           /\ ~isBangQuery(reqs'[Len(reqs')].q) =>
                reqs'[Len(reqs')].local =
                  predictFrom(reqs'[Len(reqs')].q, 8, corpus', trie', ngramIndex')
      /\ (Len(reqs') = Len(reqs) + 1 /\ reqs'[Len(reqs')].q = "") =>
           UNCHANGED <<corpus, trie, ngramIndex, engineReady>> ]_vars

\* An empty request that left the engine alone, then two requests with a
\* query, the second of which found the engine ready.
C23_Witness ==
  /\ Len(reqs) = 3
  /\ reqs[1].q = "" /\ reqs[2].q = "gi" /\ reqs[3].q = "gi"
  /\ reqs[2].pc = "fetching" /\ reqs[3].pc = "fetching"
  /\ engineReady
  /\ Len(reqs[3].local) > 0
  /\ RefEngineBuilt(corpus, trie, ngramIndex)

(***************************************************************************)
(* mergeWithGoogle over what predict returned.                             *)
(***************************************************************************)

MaxMergeChars == 3
MaxGoogle == 2
MaxMergeLimit == 3

MergeCorpora == {c \in EngineCorpora : c \in Corpora(MaxMergeChars)}

\* What the upstream may suggest: words of the corpus, one in capitals, and
\* words the corpus cannot hold.
GoogleTexts == {"aa", "AA", "aaa", "z"}

GoogleLists == SeqsUpTo(GoogleTexts, MaxGoogle)

\* One call mergeWithGoogle(local, googleSuggestions, limit) with the list
\* predict returned. merged holds the objects of local, so the boost of
\* line 343 is seen in local as well.
Merge(googleSuggestions, limit) ==
  /\ results # Null
  /\ call = Null
  /\ call' = [local |-> results[1], google |-> googleSuggestions, limit |-> limit]
  /\ ret' = Some(mergeWithGoogle(results[1], googleSuggestions, limit))
  /\ results' = Some(SubSeq(mergeScan(results[1],
                                      {lower(results[1][i].text) : i \in 1..Len(results[1])},
                                      googleSuggestions, 1),
                            1, Len(results[1])))
  /\ UNCHANGED <<query, url, corpus, trie, ngramIndex, pquery, plimit,
                 strA, strB, strC, dist, serverVars,
                 barVars>>

NextMerge ==
  \/ \E words \in MergeCorpora : initSearchEngine(words)
  \/ \E q \in Queries, limit \in 0..MaxLimit : Predict(q, limit)
  \/ \E g \in GoogleLists, limit \in 0..MaxMergeLimit : Merge(g, limit)

SpecMerge == InitPredict /\ [][NextMerge]_vars

Merged == ret # Null /\ call # Null /\ DOMAIN call = {"local", "google", "limit"}

\* A score raised by 0.15 and clamped at 1, n times over.
RECURSIVE RefBoosted(_, _)
RefBoosted(score, n) ==
  IF n = 0 THEN score
  ELSE RefBoosted(Min2(ScoreScale, score + 15 * (ScoreScale \div 100)), n - 1)

\* How many external suggestions equal the text ignoring case.
RefTimes(google, text) == Cardinality({k \in 1..Len(google) : lower(google[k]) = lower(text)})

\* The first local prediction with this text, ignoring case, is the one a
\* match acts on.
RefFirstWith(local, i) == \A j \in 1..(i - 1) : lower(local[j].text) # lower(local[i].text)

\* The external suggestions that match no local prediction, each at its
\* first place in the list.
RefAdded(local, google) ==
  {k \in 1..Len(google) :
     /\ \A i \in 1..Len(local) : lower(local[i].text) # lower(google[k])
     /\ \A j \in 1..(k - 1) : lower(google[j]) # lower(google[k])}

\* The entry of the local prediction i after the merge.
RefLocalEntry(local, google, i) ==
  [local[i] EXCEPT !.score =
     IF RefFirstWith(local, i) THEN RefBoosted(@, RefTimes(google, local[i].text)) ELSE @]

\* The entry added for the external suggestion k: 0.9, raised by each
\* repetition of the suggestion further on in the list.
RefGoogleEntry(google, k) ==
  [text |-> google[k], source |-> "google",
   score |-> RefBoosted(9 * (ScoreScale \div 10), RefTimes(google, google[k]) - 1)]

\* C24: in mergeWithGoogle an external suggestion equal to an existing
\* prediction ignoring case adds no entry and boosts that prediction to
\* min(1, old score + 0.15), which is never lower than the old score, so a
\* match never moves a local prediction down in the ranking; a suggestion
\* that matches nothing is added once with the score 0.9; the result is
\* sorted by descending score and truncated to limit.
C24_MergeBoost ==
  Merged =>
    LET local == call.local
        google == call.google
        out == ret[1]
        added == RefAdded(local, google)
        entries == {RefLocalEntry(local, google, i) : i \in 1..Len(local)}
                     \cup {RefGoogleEntry(google, k) : k \in added}
    IN  /\ Len(out) = Min2(call.limit, Len(local) + Cardinality(added))
        /\ \A i \in 1..Len(out) : out[i] \in entries
        /\ \A i, j \in 1..Len(out) : i < j => out[i].score >= out[j].score
        /\ \A i, j \in 1..Len(out) : i # j => out[i] # out[j]
        /\ \A e \in entries :
             (\A i \in 1..Len(out) : out[i] # e) =>
               \A i \in 1..Len(out) : out[i].score >= e.score
        /\ \A i \in 1..Len(local) :
             RefLocalEntry(local, google, i).score >= local[i].score
        /\ \A i, j \in 1..Len(local) :
             (/\ local[i].score >= local[j].score /\ i < j
              /\ RefTimes(google, local[i].text) > 0
              /\ RefTimes(google, local[j].text) = 0) =>
               \A b \in 1..Len(out) :
                 out[b].text = local[j].text =>
                   \E a \in 1..(b - 1) : out[a].text = local[i].text

\* The same for the local lists whose scores are 1 at most.
MergeBoostOfUnitScores ==
  (Merged /\ \A i \in 1..Len(call.local) : call.local[i].score <= ScoreScale)
    => C24_MergeBoost

\* C25: in the list mergeWithGoogle returns, every local prediction with
\* the source prefix is placed before every entry with the source google,
\* for every query, corpus and list of external suggestions.
C25_PrefixOutranksGoogle ==
  Merged =>
    \A i \in 1..Len(call.local), b \in 1..Len(ret[1]) :
      (call.local[i].source = "prefix" /\ ret[1][b].source = "google") =>
        \E a \in 1..(b - 1) :
          ret[1][a].text = call.local[i].text /\ ret[1][a].source = "prefix"

\* What _trie.search(q, 10) returns for the query of the call.
RefTrieMatches == trieSearch(trie[1], lower(pquery), TrieLimit)

\* The corpus words the startsWith scan of line 257 matches.
RefScanMatches ==
  {w \in CorpusWords : startsWith(Chars(lower(w)), Chars(lower(pquery)))}

\* C30: in predict the trie layer is subsumed by the linear prefix scan:
\* every word Trie.search(query, 10) returns is among the words the corpus
\* startsWith scan matched, so the trie layer establishes no score (no
\* returned score is 0.8 * |query| / |word|) and no returned prediction has
\* the source tag trie.
C30_TrieSubsumed ==
  Predicted =>
    /\ \A k \in 1..Len(RefTrieMatches) : RefTrieMatches[k] \in RefScanMatches
    /\ \A i \in 1..Len(Returned) :
         /\ Returned[i].source # "trie"
         /\ Returned[i].score #
              Weighted(W_TRIE, Ratio(Len(pquery), Len(Returned[i].text)))

\* The trie finds two words for the query and predict returns them both.
C30_Witness ==
  /\ Predicted
  /\ Len(RefTrieMatches) = 2
  /\ Len(Returned) = 2
  /\ \A k \in 1..2 : RefTrieMatches[k] \in ReturnedTexts
  /\ \E k \in 1..2 : RefTrieMatches[k] # lower(pquery)

(***************************************************************************)
(* The search history of the SearchBar (src/unnamed/part_002): the list    *)
(* kept in localStorage under bangs:history.                               *)
(***************************************************************************)

\* HISTORY_MAX, 8 in the code: the model holds a history of this size.
HISTORY_MAX == 3

\* loadHistory(): the stored list, [] when nothing is stored.
loadHistory == localStorage

\* What saveHistory(items) stores.
saveHistory(items) == slice(items, HISTORY_MAX)

\* addToHistory that tells the stored entries apart by their case
addToHistoryExact(stored, q) ==
  LET trimmed == Str(trim(Chars(q)))
      other(h) == h # trimmed
  IN  IF trimmed = "" THEN stored
      ELSE slice(<<trimmed>> \o SelectSeq(stored, other), HISTORY_MAX)

\* addToHistory(query) over the stored list: the list it returns, which is
\* the list it has saved unless the query is blank.
addToHistory(stored, q) ==
  LET trimmed == Str(trim(Chars(q)))
      other(h) == lower(h) # lower(trimmed)
  IN  IF trimmed = "" THEN stored
      ELSE slice(<<trimmed>> \o SelectSeq(stored, other), HISTORY_MAX)

\* One call addToHistory(q).
AddToHistory(q) ==
  /\ call' = [op |-> "addToHistory", query |-> q]
  /\ ret' = Some(addToHistory(loadHistory, q))
  /\ localStorage' = saveHistory(addToHistory(loadHistory, q))
  /\ UNCHANGED <<query, url, corpus, trie, ngramIndex, pquery, plimit, results,
                 strA, strB, strC, dist, serverVars, href, barQuery,
                 debouncedQuery, barSuggestions, activeIndex, open, isLoading,
                 history, abortRef>>

\* One call clearHistory().
ClearHistory ==
  /\ call' = [op |-> "clearHistory", query |-> ""]
  /\ ret' = Null
  /\ localStorage' = <<>>
  /\ UNCHANGED <<query, url, corpus, trie, ngramIndex, pquery, plimit, results,
                 strA, strB, strC, dist, serverVars, href, barQuery,
                 debouncedQuery, barSuggestions, activeIndex, open, isLoading,
                 history, abortRef>>

\* The queries submitted: blank ones, one word in two cases and with spaces
\* around it, and more words than the history holds.
HistoryQueries == {"", " ", "a", "A", " a ", "b", "c", "d", "e"}

NextHistory ==
  \/ \E q \in HistoryQueries : AddToHistory(q)
  \/ ClearHistory

SpecHistory == InitServer /\ [][NextHistory]_vars

\* At most HISTORY_MAX entries, none blank, no two equal ignoring case.
RefHistoryOk(h) ==
  /\ Len(h) <= HISTORY_MAX
  /\ \A i \in 1..Len(h) : trim(Chars(h[i])) # <<>>
  /\ \A i, j \in 1..Len(h) : i # j => lower(h[i]) # lower(h[j])

\* The entries of h other than the text, ignoring case, in their order.
RefOthers(h, text) ==
  LET kept == {i \in 1..Len(h) : lower(h[i]) # lower(text)}
  IN  [k \in 1..Cardinality(kept) |->
        h[CHOOSE i \in kept : Cardinality({j \in kept : j < i}) = k - 1]]

\* C26: after any sequence of addToHistory and clearHistory calls from an
\* empty store the stored history has at most HISTORY_MAX entries, none
\* blank, no two equal ignoring case, most recent first, its first entry the
\* trimmed text of the last query submitted that was not blank; addToHistory
\* with a blank query leaves the store unchanged.
C26_History ==
  [][ /\ RefHistoryOk(localStorage')
      /\ (call'.op = "clearHistory") => localStorage' = <<>>
      /\ (call'.op = "addToHistory" /\ trim(Chars(call'.query)) = <<>>) =>
           localStorage' = localStorage
      /\ (call'.op = "addToHistory" /\ trim(Chars(call'.query)) # <<>>) =>
           /\ localStorage'[1] = Str(trim(Chars(call'.query)))
           /\ Tail(localStorage') =
                slice(RefOthers(localStorage, localStorage'[1]), HISTORY_MAX - 1) ]_vars

\* A full history with the word a at its head, which the blank query
\* submitted last has left as it was.
C26_Witness ==
  /\ Len(localStorage) = HISTORY_MAX
  /\ localStorage[1] = "a"
  /\ lower(localStorage[2]) # "a"
  /\ call = [op |-> "addToHistory", query |-> " "]

(***************************************************************************)
(* The SearchBar component (src/unnamed/part_002). activeIndex counts from *)
(* 0 as in the code: suggestions[i] is barSuggestions[i + 1].              *)
(***************************************************************************)

otherVars == <<query, url, corpus, trie, ngramIndex, pquery, plimit, results,
               strA, strB, strC, dist, callVars, serverVars>>

\* history.map(h => ({ type: 'recent', text: h }))
recentItems(list) == [i \in 1..Len(list) |-> [type |-> "recent", text |-> list[i]]]

\* The bang items of buildSuggestions: at most 5 bangs by trigger, then at
\* most 2 by name. (The description of a bang is not modelled.)
bangItems(q) ==
  LET found == IF isBangQuery(q) THEN matchBangs(SubSeq(q, 2, Len(q)), 5, 2) ELSE <<>>
  IN  [i \in 1..Len(found) |->
        [type |-> "bang", trigger |-> Str(found[i].trigger), name |-> Str(found[i].name)]]

\* q.replace(/^!\S+\s*/, '').trim() for a bang query, q otherwise; the
\* expression textQuery || (isBangQuery ? '' : q) has the same value.
queryForSuggest(q) ==
  IF ~isBangQuery(q) THEN q
  ELSE LET cs == Chars(q)
           spaces == {i \in 2..Len(cs) : IsSpace(cs[i])}
           tokenEnd == IF spaces = {} THEN Len(cs) ELSE Min(spaces) - 1
       IN  IF tokenEnd < 2 THEN Str(trim(cs))
           ELSE Str(trim(SubSeq(cs, tokenEnd + 1, Len(cs))))

\* The text items pushed for the merged predictions.
textItems(merged) ==
  [i \in 1..Len(merged) |->
    [type |-> "text", text |-> merged[i].text, source |-> merged[i].source,
     score |-> merged[i].score]]

\* What an invocation sets as suggestions once its fetch has ended with the
\* list google ([] when the fetch failed or was aborted).
itemsOf(run, google) == run.items \o textItems(mergeWithGoogle(run.local, google, 7))

\* The end of buildSuggestions after its await: the finally block and the
\* three setters of lines 244-246.
resumed(run, google, pendingAfter) ==
  /\ isLoading' = FALSE
  /\ barSuggestions' = itemsOf(run, google)
  /\ open' = (Len(itemsOf(run, google)) > 0)
  /\ activeIndex' = -1
  /\ abortRef' = pendingAfter

\* buildSuggestions(q) up to its await or its return, local being
\* predict(queryForSuggest, 6). Aborting the fetch of an earlier invocation
\* rejects its promise, so that invocation resumes (with no suggestions from
\* Google) as soon as this one has reached its await, after setIsLoading(true).
buildSuggestions(q, local) ==
  IF trim(Chars(q)) = <<>>
    THEN /\ barSuggestions' = recentItems(loadHistory)
         /\ open' = (loadHistory # <<>>)
         /\ UNCHANGED <<activeIndex, isLoading, abortRef>>
  ELSE IF queryForSuggest(q) = ""
    THEN /\ barSuggestions' = bangItems(q)
         /\ open' = (Len(bangItems(q)) > 0)
         /\ activeIndex' = -1
         /\ UNCHANGED <<isLoading, abortRef>>
  ELSE IF abortRef = Null
    THEN /\ isLoading' = TRUE
         /\ abortRef' = Some([q |-> q, items |-> bangItems(q), local |-> local])
         /\ UNCHANGED <<barSuggestions, open, activeIndex>>
    ELSE resumed(abortRef[1], <<>>,
                 Some([q |-> q, items |-> bangItems(q), local |-> local]))

\* onChange: the user edits the input.
Change(v) ==
  /\ href = Null
  /\ v # barQuery
  /\ barQuery' = v
  /\ UNCHANGED <<otherVars, localStorage, href, debouncedQuery, barSuggestions,
                 activeIndex, open, isLoading, history, abortRef>>

\* The timer of useDebounce fires, 280 ms after the last edit, and the
\* effect of line 248 calls buildSuggestions(debouncedQuery).
Debounce ==
  /\ href = Null
  /\ barQuery # debouncedQuery
  /\ debouncedQuery' = barQuery
  /\ buildSuggestions(barQuery,
                      IF trim(Chars(barQuery)) = <<>> \/ queryForSuggest(barQuery) = ""
                        THEN <<>> ELSE predict(queryForSuggest(barQuery), 6))
  /\ UNCHANGED <<otherVars, localStorage, href, barQuery, history>>

\* The fetch of the invocation under abortRef ends: with the list google,
\* or with [] for a response that is not ok and for a network error.
Respond(google) ==
  /\ href = Null
  /\ abortRef # Null
  /\ resumed(abortRef[1], google, Null)
  /\ UNCHANGED <<otherVars, localStorage, href, barQuery, debouncedQuery, history>>

\* handleFocus
Focus ==
  /\ href = Null
  /\ IF trim(Chars(barQuery)) = <<>> /\ Len(history) > 0
       THEN barSuggestions' = recentItems(history) /\ open' = TRUE
     ELSE IF Len(barSuggestions) > 0
       THEN open' = TRUE /\ UNCHANGED barSuggestions
     ELSE UNCHANGED <<barSuggestions, open>>
  /\ UNCHANGED <<otherVars, localStorage, href, barQuery, debouncedQuery,
                 activeIndex, isLoading, history, abortRef>>

\* submitQuery(q)
submitQuery(q) ==
  IF trim(Chars(q)) = <<>>
    THEN UNCHANGED <<localStorage, history, href>>
    ELSE /\ localStorage' = saveHistory(addToHistory(loadHistory, q))
         /\ history' = addToHistory(loadHistory, q)
         /\ href' = Some(q)

\* selectSuggestion(item)
selectSuggestion(item) ==
  IF item.type = "bang"
    THEN /\ barQuery' = "!" \o item.trigger \o " "
         /\ barSuggestions' = <<>>
         /\ open' = FALSE
         /\ activeIndex' = -1
         /\ UNCHANGED <<localStorage, history, href>>
    ELSE /\ barQuery' = item.text
         /\ open' = FALSE
         /\ submitQuery(item.text)
         /\ UNCHANGED <<barSuggestions, activeIndex>>

\* handleSubmit
handleSubmit ==
  IF activeIndex >= 0 /\ activeIndex < Len(barSuggestions)
    THEN selectSuggestion(barSuggestions[activeIndex + 1])
    ELSE /\ submitQuery(barQuery)
         /\ UNCHANGED <<barQuery, barSuggestions, open, activeIndex>>

BarKeys == {"ArrowDown", "ArrowUp", "Escape", "Enter"}

\* handleKeyDown, and for Enter the submit event of the form that follows
\* unless the handler has prevented it. selectSuggestion(undefined) throws a
\* TypeError before it sets anything.
KeyDown(key) ==
  /\ href = Null
  /\ IF ~open
       THEN IF key = "Enter" THEN handleSubmit
            ELSE UNCHANGED <<localStorage, history, href, barQuery, barSuggestions,
                             open, activeIndex>>
     ELSE IF key = "ArrowDown"
       THEN /\ activeIndex' = Min2(activeIndex + 1, Len(barSuggestions) - 1)
            /\ UNCHANGED <<localStorage, history, href, barQuery, barSuggestions, open>>
     ELSE IF key = "ArrowUp"
       THEN /\ activeIndex' = IF activeIndex - 1 >= -1 THEN activeIndex - 1 ELSE -1
            /\ UNCHANGED <<localStorage, history, href, barQuery, barSuggestions, open>>
     ELSE IF key = "Escape"
       THEN /\ open' = FALSE
            /\ activeIndex' = -1
            /\ UNCHANGED <<localStorage, history, href, barQuery, barSuggestions>>
     ELSE IF activeIndex >= 0
       THEN IF activeIndex < Len(barSuggestions)
              THEN selectSuggestion(barSuggestions[activeIndex + 1])
              ELSE UNCHANGED <<localStorage, history, href, barQuery, barSuggestions,
                               open, activeIndex>>
     ELSE /\ submitQuery(barQuery)
          /\ UNCHANGED <<barQuery, barSuggestions, open, activeIndex>>
  /\ UNCHANGED <<otherVars, debouncedQuery, isLoading, abortRef>>

\* onMouseEnter of the item at index i of the dropdown.
MouseEnter(i) ==
  /\ href = Null
  /\ open
  /\ i < Len(barSuggestions)
  /\ activeIndex' = i
  /\ UNCHANGED <<otherVars, localStorage, href, barQuery, debouncedQuery,
                 barSuggestions, open, isLoading, history, abortRef>>

\* onMouseDown of the item at index i of the dropdown.
MouseDown(i) ==
  /\ href = Null
  /\ open
  /\ i < Len(barSuggestions)
  /\ selectSuggestion(barSuggestions[i + 1])
  /\ UNCHANGED <<otherVars, debouncedQuery, isLoading, abortRef>>

\* handleClearHistory, the button above the recent entries.
handleClearHistory ==
  /\ href = Null
  /\ open
  /\ \E i \in 1..Len(barSuggestions) : barSuggestions[i].type = "recent"
  /\ localStorage' = <<>>
  /\ history' = <<>>
  /\ barSuggestions' = <<>>
  /\ open' = FALSE
  /\ UNCHANGED <<otherVars, href, barQuery, debouncedQuery, activeIndex,
                 isLoading, abortRef>>

\* A mousedown outside the component.
handleClick ==
  /\ href = Null
  /\ open
  /\ open' = FALSE
  /\ UNCHANGED <<otherVars, localStorage, href, barQuery, debouncedQuery,
                 barSuggestions, activeIndex, isLoading, history, abortRef>>

\* What the user types: nothing, a word, a bare bang, a bang with a text.
BarInputs == {"", "gi", "!g", "!g x"}

\* What /api/suggestions answers; [] stands for a failed fetch as well.
BarAnswers == {<<>>, <<"github", "gix">>}

\* The histories earlier visits have left in the store.
BarStores == {<<>>, <<"b", "a">>}

\* The component after its first render and its effects: ensureEngine(),
\* setHistory(loadHistory()) and buildSuggestions('').
InitBar ==
  /\ corpus = Some(routeCorpus)
  /\ trie = Some(routeTrie)
  /\ ngramIndex = Some(routeIndex)
  /\ pquery = "" /\ plimit = 0 /\ results = Null
  /\ ResolverIdle /\ DistanceIdle /\ CallIdle /\ ServerIdle
  /\ localStorage \in BarStores
  /\ href = Null
  /\ barQuery = "" /\ debouncedQuery = ""
  /\ barSuggestions = recentItems(localStorage)
  /\ open = (localStorage # <<>>)
  /\ activeIndex = -1 /\ isLoading = FALSE
  /\ history = localStorage
  /\ abortRef = Null

MaxItems == 12

NextBar ==
  \/ \E v \in BarInputs : Change(v)
  \/ Debounce
  \/ \E google \in BarAnswers : Respond(google)
  \/ Focus
  \/ \E key \in BarKeys : KeyDown(key)
  \/ \E i \in 0..(MaxItems - 1) : MouseEnter(i)
  \/ \E i \in 0..(MaxItems - 1) : MouseDown(i)
  \/ handleClearHistory
  \/ handleClick

SpecBar == InitBar /\ [][NextBar]_vars

\* C27: in every reachable state of the SearchBar, whenever the dropdown is
\* open activeIndex is -1 or a valid index into the suggestions list, so
\* that Enter never selects a suggestion that does not exist.
C27_ActiveIndexValid ==
  (href = Null /\ open) => (activeIndex >= -1 /\ activeIndex < Len(barSuggestions))

\* The invocations of buildSuggestions and the ends of their fetches alone.
NextBuild ==
  \/ \E v \in BarInputs : Change(v)
  \/ Debounce
  \/ \E google \in BarAnswers : Respond(google)

SpecBuild == InitBar /\ [][NextBuild]_vars

\* What buildSuggestions(q) displays when its fetch, if it starts one, ends
\* with the list google.
RefBuiltFor(q, google) ==
  IF trim(Chars(q)) = <<>> THEN recentItems(localStorage)
  ELSE IF queryForSuggest(q) = "" THEN bangItems(q)
  ELSE bangItems(q) \o textItems(mergeWithGoogle(predict(queryForSuggest(q), 6), google, 7))

\* C28: a result computed for an older query never replaces the suggestions
\* of a newer one: under every interleaving of debounced buildSuggestions
\* invocations and fetch completions or aborts, once no fetch is in flight
\* the suggestions displayed are those built for the latest debounced query,
\* also when that query is empty or a bare bang and starts no fetch.
C28_LatestQueryShown ==
  abortRef = Null =>
    \E google \in BarAnswers : barSuggestions = RefBuiltFor(debouncedQuery, google)

\* C29: at most one suggestions fetch that is not aborted is in flight, and
\* isLoading tracks it: it is true while the fetch of the latest invocation
\* is pending and false once no fetch is pending; the completion or abort of
\* a superseded fetch never clears it while the newer fetch is pending.
C29_LoadingTracksFetch ==
  isLoading <=> (abortRef # Null)
====
